---- MODULE Spec2Model ----
(***************************************************************************)
(* NovaRenderer (src/src/nova_renderer.cpp): the frame executor, the       *)
(* renderpack (shaderpack) load / unload path and the tables it owns.      *)
(*                                                                         *)
(* Backend objects (rhi Renderpass, Framebuffer, Pipeline and Image        *)
(* pointers) are handles: positive integers handed out by next_handle,     *)
(* 0 is nullptr.  Renderpass objects held through std::shared_ptr live in  *)
(* rp_heap and are referred to by their index, so that aliasing between    *)
(* renderpasses and builtin_renderpasses is kept.                          *)
(***************************************************************************)
EXTENDS Integers, Sequences, FiniteSets, TLC

\* ------------------------------------------------------------------ bounds
MaxLoads == 3
MaxFrames == 2
MaxUiPasses == 1
MaxBackendFailures == 1
MaxOps == 4
MaxThreads == 2
MaxMeshes == 2
MaxRenderables == 2
MaxSceneLoads == 2
MaxReflections == 3
PoolSize == 8
Alignment == 2
MaxRequest == 3
MaxAllocations == 5
MaxHostCalls == 4

\* --------------------------------------------------------- program constants
NUM_IN_FLIGHT_FRAMES == 3
WindowWidth == 512
WindowHeight == 512

BACKBUFFER_NAME == "Backbuffer"
UI_RENDER_PASS_NAME == "NovaUI"
SCENE_OUTPUT_RENDER_TARGET_NAME == "NovaSceneOutputRT"
PER_FRAME_DATA_NAME == "NovaPerFrameUBO"
MODEL_MATRIX_BUFFER_NAME == "NovaModelMatrixUBO"

nullptr == 0

\* std::numeric_limits<uint64_t>::max(), the id returned for an unknown material
RENDERABLE_ID_MAX == -1

\* ------------------------------------------------------------------ helpers
EmptyMap == [x \in {} |-> x]

Range(s) == {s[i] : i \in 1..Len(s)}

\* std::unordered_map::emplace: inserts only when the key is absent
emplace(m, k, v) == IF k \in DOMAIN m THEN m ELSE m @@ (k :> v)

\* std::unordered_map::operator[] followed by an assignment
assign(m, k, v) == IF k \in DOMAIN m THEN [m EXCEPT ![k] = v] ELSE m @@ (k :> v)

IsPrefix(s, t) == Len(s) <= Len(t) /\ \A i \in 1..Len(s) : s[i] = t[i]

\* --------------------------------------------------- renderpack descriptions
\* What shaderpack::load_shaderpack_data hands to load_shaderpack: textures,
\* ordered pass descriptors, pipelines, materials and builtin pass names.
Tex(n, w, h, f) ==
    [name |-> n, dimension_type |-> "Absolute", width |-> w, height |-> h, pixel_format |-> f]

Out(n, f) == [name |-> n, pixel_format |-> f, clear |-> FALSE]

Pass(n, ins, outs, depth) ==
    [name |-> n, texture_inputs |-> ins, texture_outputs |-> outs, depth_texture |-> depth]

\* a PipelineCreateInfo with the resource bindings its shaders declare:
\* descriptor name -> ResourceBindingDescription
PipeI(n, p, b) == [name |-> n, pass |-> p, bindings |-> b]

Pipe(n, p) == PipeI(n, p, EmptyMap)

\* a MaterialPass with its bindings: descriptor name -> resource name
MatPassB(m, n, p, b) == [material_name |-> m, name |-> n, pipeline |-> p, bindings |-> b]

MatPass(m, n, p) == MatPassB(m, n, p, EmptyMap)

Desc(s, b) == [set |-> s, binding |-> b]

\* Pack A: Lighting reads what GBuffer writes, Final reads what Lighting
\* writes and writes the backbuffer; the passes are declared last first; the
\* pack asks for the builtin UI pass.
PackA ==
    [name |-> "A",
     textures |-> << Tex("depthBuffer", 512, 512, "Depth"),
                     Tex("sceneColor", 512, 512, "RGBA8") >>,
     passes |-> << Pass("Final", <<"sceneColor">>, <<Out(BACKBUFFER_NAME, "RGBA8")>>, <<>>),
                   Pass("Lighting", <<"depthBuffer">>, <<Out("sceneColor", "RGBA8")>>, <<>>),
                   Pass("GBuffer", <<>>, <<Out("depthBuffer", "Depth")>>, <<>>) >>,
     pipelines |-> << Pipe("gbuffer_pipe", "GBuffer"), Pipe("lighting_pipe", "Lighting") >>,
     materials |-> << [name |-> "stone",
                       passes |-> << MatPass("stone", "main", "gbuffer_pipe"),
                                     MatPass("stone", "lit", "lighting_pipe") >>] >>,
     builtin_passes |-> << UI_RENDER_PASS_NAME >>]

\* Pack B: the single pass P, one pipeline, one material, no builtin pass.
\* It shares the texture name sceneColor (other size) and the material pass
\* name {stone, main} with pack A.
PackB ==
    [name |-> "B",
     textures |-> << Tex("sceneColor", 256, 256, "RGBA8"),
                     Tex("bloom", 256, 256, "RGBA8") >>,
     passes |-> << Pass("P", <<>>, <<Out("sceneColor", "RGBA8")>>, <<>>) >>,
     pipelines |-> << Pipe("p_pipe", "P") >>,
     materials |-> << [name |-> "stone",
                       passes |-> << MatPass("stone", "main", "p_pipe") >>] >>,
     builtin_passes |-> << >>]

\* Pack Cyc: X reads what Y writes and Y reads what X writes.
PackCyc ==
    [name |-> "Cyc",
     textures |-> << Tex("t1", 128, 128, "RGBA8"), Tex("t2", 128, 128, "RGBA8") >>,
     passes |-> << Pass("X", <<"t2">>, <<Out("t1", "RGBA8")>>, <<>>),
                   Pass("Y", <<"t1">>, <<Out("t2", "RGBA8")>>, <<>>) >>,
     pipelines |-> << Pipe("x_pipe", "X") >>,
     materials |-> << [name |-> "glass",
                       passes |-> << MatPass("glass", "main", "x_pipe") >>] >>,
     builtin_passes |-> << >>]

Packs == {PackA, PackB, PackCyc}

\* Pack Err: passes without inputs, kept in declaration order.  Good is
\* valid; TwoSizes has color outputs of 512x512 and 128x128; DepthOff has a
\* 512x512 color output and a 256x256 depth attachment; BackPlus writes the
\* backbuffer and a texture; Present writes the backbuffer alone.  The
\* material pass {stone, lost} binds a resource name that is in no table and
\* one that names both a dynamic texture and a builtin buffer.
PackErr ==
    [name |-> "Err",
     textures |-> << Tex("sceneColor", 512, 512, "RGBA8"),
                     Tex("bloom", 128, 128, "RGBA8"),
                     Tex("depthTex", 256, 256, "Depth"),
                     Tex(MODEL_MATRIX_BUFFER_NAME, 64, 64, "RGBA8") >>,
     passes |-> << Pass("Good", <<>>, <<Out("sceneColor", "RGBA8")>>, <<>>),
                   Pass("TwoSizes", <<>>, <<Out("sceneColor", "RGBA8"), Out("bloom", "RGBA8")>>, <<>>),
                   Pass("DepthOff", <<>>, <<Out("sceneColor", "RGBA8")>>, <<Out("depthTex", "Depth")>>),
                   Pass("BackPlus", <<>>, <<Out(BACKBUFFER_NAME, "RGBA8"), Out("sceneColor", "RGBA8")>>, <<>>),
                   Pass("Present", <<>>, <<Out(BACKBUFFER_NAME, "RGBA8")>>, <<>>) >>,
     pipelines |-> << PipeI("good_pipe", "Good", ("Globals" :> Desc(0, 0)) @@ ("tex" :> Desc(0, 1))),
                      Pipe("depth_pipe", "DepthOff") >>,
     materials |-> << [name |-> "stone",
                       passes |-> << MatPassB("stone", "main", "good_pipe",
                                         ("Globals" :> PER_FRAME_DATA_NAME) @@ ("tex" :> "bloom")),
                                     MatPassB("stone", "lost", "good_pipe",
                                         ("Globals" :> MODEL_MATRIX_BUFFER_NAME) @@ ("tex" :> "nowhere")) >>],
                      [name |-> "glass",
                       passes |-> << MatPass("glass", "main", "depth_pipe") >>] >>,
     builtin_passes |-> << >>]

\* Pack BadBinding: the material pass {metal, main} binds the descriptor
\* "Lights", which the shaders of q_pipe do not declare; the pass R after it
\* is valid.
PackBadBinding ==
    [name |-> "BadBinding",
     textures |-> << Tex("sceneColor", 512, 512, "RGBA8") >>,
     passes |-> << Pass("Q", <<>>, <<Out("sceneColor", "RGBA8")>>, <<>>),
                   Pass("R", <<>>, <<Out("sceneColor", "RGBA8")>>, <<>>) >>,
     pipelines |-> << PipeI("q_pipe", "Q", "Globals" :> Desc(0, 0)),
                      Pipe("r_pipe", "R") >>,
     materials |-> << [name |-> "metal",
                       passes |-> << MatPassB("metal", "main", "q_pipe",
                                         ("Globals" :> PER_FRAME_DATA_NAME)
                                         @@ ("Lights" :> MODEL_MATRIX_BUFFER_NAME)) >>] >>,
     builtin_passes |-> << >>]

\* Pack Scene: the pass S1 writes the builtin scene-output render target; the
\* pass S2 after it writes a dynamic texture.
PackScene ==
    [name |-> "Scene",
     textures |-> << Tex("sceneColor", 512, 512, "RGBA8") >>,
     passes |-> << Pass("S1", <<>>, <<Out(SCENE_OUTPUT_RENDER_TARGET_NAME, "RGBA8")>>, <<>>),
                   Pass("S2", <<>>, <<Out("sceneColor", "RGBA8")>>, <<>>) >>,
     pipelines |-> << Pipe("s1_pipe", "S1"), Pipe("s2_pipe", "S2") >>,
     materials |-> << [name |-> "water",
                       passes |-> << MatPass("water", "main", "s2_pipe") >>] >>,
     builtin_passes |-> << >>]

\* Pack Missing: the pass M1 writes a texture that exists nowhere; the pass
\* M2 after it is valid.
PackMissing ==
    [name |-> "Missing",
     textures |-> << Tex("sceneColor", 512, 512, "RGBA8") >>,
     passes |-> << Pass("M1", <<>>, <<Out("ghost", "RGBA8")>>, <<>>),
                   Pass("M2", <<>>, <<Out("sceneColor", "RGBA8")>>, <<>>) >>,
     pipelines |-> << Pipe("m2_pipe", "M2") >>,
     materials |-> << [name |-> "sand",
                       passes |-> << MatPass("sand", "main", "m2_pipe") >>] >>,
     builtin_passes |-> << >>]

\* the renderpacks used to exercise add_render_pass
PassPacks == {PackB, PackErr, PackBadBinding, PackScene, PackMissing}

AllPacks == Packs \cup PassPacks

\* the renderpacks loaded around add_renderable_for_material, and the
\* material passes and mesh ids it is called with
ScenePacks == {PackA, PackB}

MaterialNames == { <<"stone", "main">>, <<"nobody", "main">> }

MeshIds == 0..MaxMeshes

Threads == 1..MaxThreads

VARIABLES
    \* --- renderpack state of NovaRenderer
    shaderpack_loaded,      \* bool shaderpack_loaded
    dynamic_textures,       \* name -> rhi::Image* handle
    dynamic_texture_infos,  \* name -> TextureCreateInfo
    renderpasses,           \* vector<shared_ptr<Renderpass>>: indices into rp_heap
    rp_heap,                \* the Renderpass objects
    builtin_renderpasses,   \* name -> index into rp_heap
    renderpass_metadatas,   \* name -> RenderpassMetadata
    material_pass_keys,     \* <<material name, pass name>> -> MaterialPassKey
    builtin_images,         \* name -> rhi::Image* handle
    builtin_buffers,        \* name -> rhi::Buffer* handle
    \* --- meshes and renderables
    meshes,                 \* MeshId -> Mesh
    proc_meshes,            \* MeshId -> ProceduralMesh
    next_mesh_id,
    next_renderable_id,     \* std::atomic<RenderableId>
    renderables,            \* the add_renderable_for_material calls that returned
    thr,                    \* thread -> its position in add_renderable_for_material
    \* --- the backend (rhi)
    next_handle,            \* next backend object handle
    handle_info,            \* handle -> what it was created from
    destroy_count,          \* handle -> number of destroy_* calls on it
    \* --- frame executor
    pc,                     \* position of the host thread in execute_frame
    frame_count,
    cur_frame_idx,
    frame_fences,           \* slot -> [signaled, by]
    cmds,                   \* the command list of the running frame
    gpu_queue,              \* submitted, not yet executed command lists
    frame_log,              \* backend calls made by the running frame so far
    \* --- history
    load_history,           \* names of the renderpacks loaded so far
    load_log,               \* backend calls made by the last load_shaderpack
    arp_log,                \* the add_render_pass calls of the last load_shaderpack
    bind_log,               \* its bind_data_to_material_descriptor_sets calls
    last_load,              \* what the last load_shaderpack was given and did
    snapshot_first,         \* the tables right after the first load
    backend_failures,       \* how many times the backend has refused a creation
    terminated,             \* an exception has left load_shaderpack
    \* --- create_pipeline_interface
    shader_stages,          \* PipelineCreateInfo: shader stage -> the resources its shader declares
    reflected_bindings,     \* name -> ResourceBindingDescription, as merged so far
    reflection_log,         \* the get_shader_module_descriptors calls made on bindings
    pipeline_interface,     \* what create_pipeline_interface handed to the backend
    \* --- the global GPU memory pools
    mesh_memory,            \* unique_ptr<DeviceMemoryResource>: <<>> or << block strategy >>
    ubo_memory,             \* unique_ptr<DeviceMemoryResource>: <<>> or << bump strategy >>
    staging_buffer_memory,  \* unique_ptr<DeviceMemoryResource>: <<>> or << bump strategy >>
    memory_log,             \* the dereferences of the pools and the calls of their strategies
    \* --- threads calling load_shaderpack
    loading,                \* thread -> where it is in load_shaderpack, and with which pack
    \* --- the transfer queue of the backend
    transfer_queue          \* submitted, not yet executed upload command lists

vars == << shaderpack_loaded, dynamic_textures, dynamic_texture_infos, renderpasses,
           rp_heap, builtin_renderpasses, renderpass_metadatas, material_pass_keys,
           builtin_images, builtin_buffers,
           meshes, proc_meshes, next_mesh_id, next_renderable_id, renderables, thr,
           next_handle, handle_info, destroy_count,
           pc, frame_count, cur_frame_idx, frame_fences, cmds, gpu_queue, frame_log,
           load_history, load_log, arp_log, bind_log, last_load, snapshot_first,
           backend_failures, terminated,
           shader_stages, reflected_bindings, reflection_log, pipeline_interface,
           mesh_memory, ubo_memory, staging_buffer_memory, memory_log, loading,
           transfer_queue >>

pack_vars == << shaderpack_loaded, dynamic_textures, dynamic_texture_infos, renderpasses,
                rp_heap, builtin_renderpasses, renderpass_metadatas, material_pass_keys,
                builtin_images, builtin_buffers,
                next_handle, handle_info, destroy_count,
                load_history, load_log, arp_log, bind_log, last_load, snapshot_first,
                backend_failures, terminated >>

mesh_vars == << meshes, proc_meshes, next_mesh_id, next_renderable_id, renderables, thr >>

frame_vars == << pc, frame_count, cur_frame_idx, frame_fences, cmds, gpu_queue, frame_log >>

reflection_vars == << shader_stages, reflected_bindings, reflection_log, pipeline_interface >>

memory_vars == << mesh_memory, ubo_memory, staging_buffer_memory, memory_log >>

other_vars == << reflection_vars, memory_vars, loading, transfer_queue >>

\* ------------------------------------------------------------ order_passes
\* shaderpack::order_passes: a topological order over the input/output naming
\* relation, ties broken by declaration order; a cycle is an error.
OutputNames(p) == {p.texture_outputs[i].name : i \in 1..Len(p.texture_outputs)}

InputNames(p) == Range(p.texture_inputs)

\* every other pass that writes an input of passes[i] is already placed
PassReady(passes, placed, i) ==
    \A j \in 1..Len(passes) :
        (j # i /\ InputNames(passes[i]) \cap OutputNames(passes[j]) # {}) => j \in placed

RECURSIVE order_from(_, _)
order_from(passes, placed) ==
    LET done == Range(placed)
        ready == {i \in (1..Len(passes)) \ done : PassReady(passes, done, i)}
    IN IF done = 1..Len(passes)
         THEN [has_value |-> TRUE, value |-> [k \in 1..Len(placed) |-> passes[placed[k]]]]
       ELSE IF ready = {}
         THEN [has_value |-> FALSE, value |-> [k \in 1..Len(placed) |-> passes[placed[k]]]]
       ELSE order_from(passes, Append(placed, CHOOSE i \in ready : \A j \in ready : i <= j))

order_passes(passes) == order_from(passes, <<>>)

\* calls made by the host so far: loads, frames and set_ui_renderpass
HostCalls ==
    Len(load_history) + frame_count + Cardinality({i \in 1..Len(rp_heap) : rp_heap[i].load = -1})

\* ------------------------------------------------------------------ backend
\* rhi->reset_fences({frame_fences.at(i)})
reset_fences_noop(fences, i) == fences

reset_fences(fences, i) == [fences EXCEPT ![i] = [signaled |-> FALSE, by |-> 0]]

\* The queue executes a submitted command list and signals its fence.
signal_fence_never(fences, i, frame) == fences

signal_fence(fences, i, frame) == [fences EXCEPT ![i] = [signaled |-> TRUE, by |-> frame]]

\* rhi->create_fences(NUM_IN_FLIGHT_FRAMES, true): created signaled
create_fences == [i \in 0..(NUM_IN_FLIGHT_FRAMES - 1) |-> [signaled |-> TRUE, by |-> 0]]

\* rhi->wait_for_fences({fence}) returns once the fence is signaled
fence_signaled_always(fences, i) == TRUE

fence_signaled(fences, i) == fences[i].signaled

\* rhi->create_command_list(0, QueueType::Graphics): a new command list,
\* named after the frame that asked for it
create_command_list_pooled(frame) == [id |-> 1, recorded |-> <<>>, submitted |-> FALSE]

create_command_list(frame) == [id |-> frame, recorded |-> <<>>, submitted |-> FALSE]

\* renderpass->render(cmds, ctx): the pass is recorded into the command list
render(command_list, renderpass) == [command_list EXCEPT !.recorded = Append(@, renderpass)]

RECURSIVE render_from(_, _, _)
render_from(passes, i, command_list) ==
    IF i > Len(passes) THEN command_list
    ELSE render_from(passes, i + 1, render(command_list, passes[i]))

\* lines 157-169 of execute_frame: the loop over renderpasses reads the list
\* and records every element into cmds
record_commands_consuming(nova, command_list) ==
    [nova |-> [nova EXCEPT !.renderpasses = <<>>],
     cmds |-> render_from(nova.renderpasses, 1, command_list)]

record_commands(nova, command_list) ==
    [nova |-> nova, cmds |-> render_from(nova.renderpasses, 1, command_list)]

\* One backend call of the running frame.
Call(op, arg) == [op |-> op, arg |-> arg, by |-> 0]

\* ------------------------------------------------- backend object creation
\* Every create_* call hands out a fresh handle, every destroy_* call of a
\* non-null handle is counted.
new_handle(nova, kind, of) ==
    [nova EXCEPT !.next_handle = @ + 1,
                 !.handle_info = @ @@ (nova.next_handle :> [kind |-> kind, of |-> of, load |-> nova.load_no]),
                 !.destroy_count = @ @@ (nova.next_handle :> 0),
                 !.log = Append(@, Call("create_" \o kind, nova.next_handle))]

destroy_handle(nova, kind, h) ==
    IF h = nullptr
      THEN nova
      ELSE [nova EXCEPT !.destroy_count[h] = @ + 1,
                        !.log = Append(@, Call("destroy_" \o kind, h))]

\* the elements of a finite set of integers, smallest first
RECURSIVE SetToSeq(_)
SetToSeq(S) ==
    IF S = {} THEN <<>>
    ELSE LET m == CHOOSE x \in S : \A y \in S : x <= y
         IN << m >> \o SetToSeq(S \ {m})

\* ------------------------------------------------- create_dynamic_textures
RECURSIVE create_dynamic_textures_from(_, _, _)
create_dynamic_textures_from(nova, texture_create_infos, i) ==
    IF i > Len(texture_create_infos) THEN nova
    ELSE LET create_info == texture_create_infos[i]
             created == new_handle(nova, "image", create_info)
             new_texture == nova.next_handle
         IN create_dynamic_textures_from(
                [created EXCEPT
                    !.dynamic_textures = emplace(@, create_info.name, new_texture),
                    !.dynamic_texture_infos = emplace(@, create_info.name, create_info)],
                texture_create_infos, i + 1)

create_dynamic_textures(nova, texture_create_infos) ==
    create_dynamic_textures_from(nova, texture_create_infos, 1)

\* ----------------------------------------------- destroy_dynamic_resources
RECURSIVE destroy_textures(_, _)
destroy_textures(nova, images) ==
    IF images = <<>> THEN nova
    ELSE destroy_textures(destroy_handle(nova, "image", Head(images)), Tail(images))

destroy_dynamic_resources_keep(nova) ==
    destroy_textures(nova, SetToSeq({nova.dynamic_textures[n] : n \in DOMAIN nova.dynamic_textures}))

destroy_dynamic_resources(nova) ==
    [destroy_textures(nova, SetToSeq({nova.dynamic_textures[n] : n \in DOMAIN nova.dynamic_textures}))
        EXCEPT !.dynamic_textures = EmptyMap]

\* ---------------------------------------------------- destroy_renderpasses
RECURSIVE destroy_pipelines(_, _)
destroy_pipelines(nova, pipelines) ==
    IF pipelines = <<>> THEN nova
    ELSE destroy_pipelines(destroy_handle(nova, "pipeline", Head(pipelines).pipeline), Tail(pipelines))

RECURSIVE destroy_renderpasses_from(_, _)
destroy_renderpasses_from(nova, i) ==
    IF i > Len(nova.renderpasses) THEN nova
    ELSE LET renderpass == nova.rp_heap[nova.renderpasses[i]]
         IN IF ~renderpass.is_builtin
              THEN destroy_renderpasses_from(
                       destroy_pipelines(
                           destroy_handle(destroy_handle(nova, "renderpass", renderpass.renderpass),
                                          "framebuffer", renderpass.framebuffer),
                           renderpass.pipelines),
                       i + 1)
              ELSE destroy_renderpasses_from(nova, i + 1)

destroy_renderpasses(nova) == destroy_renderpasses_from(nova, 1)

\* ---------------------------------------------------------- add_render_pass
\* TextureFormat::get_size_in_pixels(screen_size)
get_size_in_pixels(format, screen) ==
    IF format.dimension_type = "Absolute"
      THEN << format.width, format.height >>
      ELSE << format.width * screen[1], format.height * screen[2] >>

\* std::make_shared<Renderpass>(): desc and load are history, not fields
NewRenderpass ==
    [id |-> 0, is_builtin |-> FALSE, writes_to_backbuffer |-> FALSE,
     renderpass |-> nullptr, framebuffer |-> nullptr, pipelines |-> <<>>,
     desc |-> Pass("", <<>>, <<>>, <<>>), load |-> 0]

\* the loop over create_info.texture_outputs (lines 377-416)
RECURSIVE scan_texture_outputs(_, _, _, _)
scan_texture_outputs(nova, create_info, i, acc) ==
    IF i > Len(create_info.texture_outputs) \/ acc.threw THEN acc
    ELSE LET attachment_info == create_info.texture_outputs[i]
         IN IF attachment_info.name = BACKBUFFER_NAME
              THEN IF Len(create_info.texture_outputs) = 1
                     THEN scan_texture_outputs(nova, create_info, i + 1,
                              [acc EXCEPT !.writes_to_backbuffer = TRUE,
                                          !.rp_writes_to_backbuffer = TRUE])
                     ELSE scan_texture_outputs(nova, create_info, i + 1,
                              [acc EXCEPT !.writes_to_backbuffer = TRUE,
                                          !.attachment_errors = Append(@, "backbuffer and other textures")])
            ELSE IF attachment_info.name \notin DOMAIN nova.dynamic_textures
                    \/ attachment_info.name \notin DOMAIN nova.dynamic_texture_infos
              THEN [acc EXCEPT !.threw = TRUE]       \* .at() throws std::out_of_range
            ELSE LET image == nova.dynamic_textures[attachment_info.name]
                     info == nova.dynamic_texture_infos[attachment_info.name]
                     attachment_size == get_size_in_pixels(info, << WindowWidth, WindowHeight >>)
                 IN IF acc.framebuffer_size[1] > 0
                      THEN IF attachment_size # acc.framebuffer_size
                             THEN scan_texture_outputs(nova, create_info, i + 1,
                                      [acc EXCEPT !.color_attachments = Append(@, image),
                                                  !.attachment_errors = Append(@, "size mismatch")])
                             ELSE scan_texture_outputs(nova, create_info, i + 1,
                                      [acc EXCEPT !.color_attachments = Append(@, image)])
                      ELSE scan_texture_outputs(nova, create_info, i + 1,
                               [acc EXCEPT !.color_attachments = Append(@, image),
                                           !.framebuffer_size = attachment_size])

\* the depth_attachment lambda (lines 419-429): an optional, as a sequence
depth_attachment_of(nova, create_info) ==
    IF create_info.depth_texture # <<>>
       /\ create_info.depth_texture[1].name \in DOMAIN nova.dynamic_textures
      THEN << nova.dynamic_textures[create_info.depth_texture[1].name] >>
      ELSE << >>

\* the DescriptorSetWrite made for one binding (lines 560-583), or none
write_for_binding(nova, descriptor_name, resource_name, binding_desc) ==
    IF resource_name \in DOMAIN nova.dynamic_textures
      THEN {[descriptor |-> descriptor_name, set |-> binding_desc.set,
             first_binding |-> binding_desc.binding, type |-> "CombinedImageSampler",
             resource |-> nova.dynamic_textures[resource_name]]}
    ELSE IF resource_name \in DOMAIN nova.builtin_buffers
      THEN {[descriptor |-> descriptor_name, set |-> binding_desc.set,
             first_binding |-> binding_desc.binding, type |-> "UniformBuffer",
             resource |-> nova.builtin_buffers[resource_name]]}
    ELSE {}

\* bind_data_to_material_descriptor_sets: the writes handed to
\* rhi->update_descriptor_sets, and the resource names reported as unknown;
\* descriptor_descriptions.at() throws for a descriptor name the pipeline
\* interface does not have, and then update_descriptor_sets is not reached.
bind_data_to_material_descriptor_sets(nova, bindings, descriptor_descriptions) ==
    IF \E descriptor_name \in DOMAIN bindings : descriptor_name \notin DOMAIN descriptor_descriptions
      THEN [threw |-> TRUE, updated |-> FALSE, writes |-> {}, unknown |-> {}]
      ELSE [threw |-> FALSE, updated |-> TRUE,
            writes |-> UNION {write_for_binding(nova, d, bindings[d], descriptor_descriptions[d]) :
                                  d \in DOMAIN bindings},
            unknown |-> {bindings[d] : d \in {e \in DOMAIN bindings :
                             /\ bindings[e] \notin DOMAIN nova.dynamic_textures
                             /\ bindings[e] \notin DOMAIN nova.builtin_buffers}}]

\* create_materials_for_pipeline: the material passes of the pipeline and
\* their keys.  st = [nova, pipeline]; bindings is pipeline_interface->bindings.
RECURSIVE create_material_passes(_, _, _, _, _)
create_material_passes(st, pass_datas, pipeline_name, bindings, template_key) ==
    IF pass_datas = <<>> \/ st.nova.threw THEN st
    ELSE LET pass_data == Head(pass_datas)
         IN IF pass_data.pipeline = pipeline_name
              THEN LET bound == bind_data_to_material_descriptor_sets(
                                    st.nova, pass_data.bindings, bindings)
                       pass == [data |-> pass_data, load |-> st.nova.load_no,
                                writes |-> bound.writes, unknown |-> bound.unknown,
                                static_mesh_draws |-> <<>>,
                                static_procedural_mesh_draws |-> <<>>]
                       full_pass_name == << pass_data.material_name, pass_data.name >>
                       key == [template_key EXCEPT
                                  !.material_pass_index = Len(st.pipeline.passes)]
                       call == [full_pass_name |-> full_pass_name, bindings |-> pass_data.bindings,
                                descriptor_descriptions |-> bindings, updated |-> bound.updated,
                                writes |-> bound.writes, unknown |-> bound.unknown]
                   IN IF bound.threw
                        THEN [st EXCEPT !.nova.threw = TRUE, !.nova.binds = Append(@, call)]
                        ELSE create_material_passes(
                                 [nova |-> [st.nova EXCEPT
                                               !.binds = Append(@, call),
                                               !.material_pass_keys = emplace(@, full_pass_name, key)],
                                  pipeline |-> [st.pipeline EXCEPT !.passes = Append(@, pass)]],
                                 Tail(pass_datas), pipeline_name, bindings, template_key)
              ELSE create_material_passes(st, Tail(pass_datas), pipeline_name, bindings, template_key)

\* all material passes of all materials, in declaration order
RECURSIVE all_material_passes(_)
all_material_passes(materials) ==
    IF materials = <<>> THEN <<>>
    ELSE Head(materials).passes \o all_material_passes(Tail(materials))

create_materials_for_pipeline(nova, pipeline, materials, pipeline_name, bindings, template_key) ==
    create_material_passes([nova |-> nova, pipeline |-> pipeline],
                           all_material_passes(materials), pipeline_name, bindings, template_key)

\* the loop over the pipelines (lines 460-498).  st = [nova, rp, metadata]:
\* rp the Renderpass object being filled in, metadata the names entered in
\* metadata.pipeline_metadata; fails names what the backend refuses.
RECURSIVE create_pipelines_of_pass(_, _, _, _, _)
create_pipelines_of_pass(st, create_info, pipelines, materials, fails) ==
    IF pipelines = <<>> \/ st.nova.threw THEN st
    ELSE LET pipeline_create_info == Head(pipelines)
         IN IF pipeline_create_info.pass # create_info.name
              THEN create_pipelines_of_pass(st, create_info, Tail(pipelines), materials, fails)
            ELSE IF pipeline_create_info.name \in fails.interface
              THEN create_pipelines_of_pass(st, create_info, Tail(pipelines), materials, fails)
            ELSE IF pipeline_create_info.name \in fails.pipeline
              THEN create_pipelines_of_pass(st, create_info, Tail(pipelines), materials, fails)
            ELSE LET created == new_handle(st.nova, "pipeline", pipeline_create_info.name)
                     pipeline == [pipeline |-> st.nova.next_handle,
                                  name |-> pipeline_create_info.name, passes |-> <<>>]
                     template_key == [renderpass_index |-> Len(created.renderpasses),
                                      pipeline_index |-> Len(st.rp.pipelines),
                                      material_pass_index |-> 0]
                     with_materials == create_materials_for_pipeline(
                                           created, pipeline, materials,
                                           pipeline_create_info.name,
                                           pipeline_create_info.bindings, template_key)
                 IN IF with_materials.nova.threw
                      THEN [st EXCEPT !.nova = with_materials.nova]
                    ELSE create_pipelines_of_pass(
                        [nova |-> with_materials.nova,
                         rp |-> [st.rp EXCEPT !.pipelines = Append(@, with_materials.pipeline)],
                         metadata |-> st.metadata \cup {pipeline_create_info.name}],
                        create_info, Tail(pipelines), materials, fails)

\* if(!attachment_errors.empty()) { log every error; return; } (lines 431-439)
report_attachment_errors_registering(nova, create_info, attachment_errors) ==
    [nova EXCEPT !.log = Append(@, Call("attachment_errors", Len(attachment_errors))),
                 !.renderpass_metadatas =
                      emplace(@, create_info.name, [data |-> create_info, pipeline_metadata |-> {}])]

report_attachment_errors(nova, create_info, attachment_errors) ==
    [nova EXCEPT !.log = Append(@, Call("attachment_errors", Len(attachment_errors)))]

\* if(!writes_to_backbuffer): the pass gets a framebuffer of its own (line 452)
needs_framebuffer_always(writes_to_backbuffer) == TRUE

needs_framebuffer(writes_to_backbuffer) == ~writes_to_backbuffer

\* rhi->create_renderpass and, unless the pass writes to the backbuffer,
\* rhi->create_framebuffer (lines 441-457): [nova, rp, metadata]
create_backend_objects(nova, rp, scanned, depth_attachment, create_info) ==
    LET created == new_handle(nova, "renderpass", create_info.name)
    IN IF needs_framebuffer(scanned.writes_to_backbuffer)
         THEN [nova |-> new_handle(created, "framebuffer",
                                   [pass |-> create_info.name,
                                    color_attachments |-> scanned.color_attachments,
                                    depth_attachment |-> depth_attachment,
                                    framebuffer_size |-> scanned.framebuffer_size]),
               rp |-> [rp EXCEPT !.renderpass = nova.next_handle,
                                 !.framebuffer = created.next_handle],
               metadata |-> {}]
         ELSE [nova |-> created,
               rp |-> [rp EXCEPT !.renderpass = nova.next_handle],
               metadata |-> {}]

\* lines 499-502: the id, the push into renderpasses and the metadata entry;
\* piped = [nova, rp, metadata] as the pipeline loop left them
register_render_pass(piped, create_info, renderpass) ==
    IF piped.nova.threw
      THEN [piped.nova EXCEPT !.rp_heap[renderpass] = piped.rp]
      ELSE [piped.nova EXCEPT
               !.rp_heap[renderpass] =
                    [piped.rp EXCEPT !.id = Cardinality(DOMAIN piped.nova.renderpass_metadatas)],
               !.renderpasses = Append(@, renderpass),
               !.renderpass_metadatas =
                    emplace(@, create_info.name,
                            [data |-> create_info, pipeline_metadata |-> piped.metadata])]

\* add_render_pass after the loop over texture_outputs (lines 419-502)
add_scanned_render_pass(nova, create_info, pipelines, materials, renderpass, fails, scanned) ==
    LET rp0 == [nova.rp_heap[renderpass] EXCEPT
                   !.desc = create_info,
                   !.load = nova.load_no,
                   !.writes_to_backbuffer = @ \/ scanned.rp_writes_to_backbuffer,
                   !.framebuffer = IF scanned.rp_writes_to_backbuffer THEN nullptr ELSE @]
    IN IF scanned.threw
         THEN [nova EXCEPT !.rp_heap[renderpass] = rp0, !.threw = TRUE]
       ELSE IF scanned.attachment_errors # <<>>
         THEN report_attachment_errors([nova EXCEPT !.rp_heap[renderpass] = rp0],
                                       create_info, scanned.attachment_errors)
       ELSE IF create_info.name \in fails.renderpass
         THEN [nova EXCEPT !.rp_heap[renderpass] = rp0,
                           !.log = Append(@, Call("create_renderpass_failed", 0))]
       ELSE register_render_pass(
                create_pipelines_of_pass(
                    create_backend_objects([nova EXCEPT !.rp_heap[renderpass] = rp0], rp0, scanned,
                                           depth_attachment_of(nova, create_info), create_info),
                    create_info, pipelines, materials, fails),
                create_info, renderpass)

\* add_render_pass(create_info, pipelines, materials, descriptor_pool, renderpass):
\* renderpass is the index in rp_heap of the shared Renderpass object.
add_render_pass(nova, create_info, pipelines, materials, renderpass, fails) ==
    add_scanned_render_pass(nova, create_info, pipelines, materials, renderpass, fails,
        scan_texture_outputs(nova, create_info, 1,
            [framebuffer_size |-> << 0, 0 >>, attachment_errors |-> <<>>,
             color_attachments |-> <<>>, writes_to_backbuffer |-> FALSE,
             rp_writes_to_backbuffer |-> FALSE, threw |-> FALSE]))

\* ------------------------------------------------------ create_render_passes
\* history: one add_render_pass call, with the tables before and after it
Tables(nova) ==
    [renderpasses |-> nova.renderpasses,
     renderpass_metadatas |-> nova.renderpass_metadatas,
     material_pass_keys |-> nova.material_pass_keys]

called(before, after, create_info, renderpass, fails) ==
    [after EXCEPT !.arp = Append(@,
        [create_info |-> create_info,
         object |-> after.rp_heap[renderpass],
         threw |-> after.threw,
         backend_refused |-> create_info.name \in fails.renderpass,
         log |-> SubSeq(after.log, Len(before.log) + 1, Len(after.log)),
         before |-> Tables(before),
         after |-> Tables(after)])]

\* a pass that was not registered is released with its shared_ptr
release_unregistered(nova, added) ==
    IF Len(added.renderpasses) = Len(nova.renderpasses)
      THEN [added EXCEPT !.rp_heap = nova.rp_heap]
      ELSE added

RECURSIVE create_render_passes(_, _, _, _, _)
create_render_passes(nova, pass_create_infos, pipelines, materials, fails) ==
    IF pass_create_infos = <<>> \/ nova.threw THEN nova
    ELSE create_render_passes(
             release_unregistered(nova,
                 called(nova,
                        add_render_pass([nova EXCEPT !.rp_heap = Append(@, NewRenderpass)],
                                        Head(pass_create_infos), pipelines, materials,
                                        Len(nova.rp_heap) + 1,     \* std::make_shared<Renderpass>()
                                        fails),
                        Head(pass_create_infos), Len(nova.rp_heap) + 1, fails)),
             Tail(pass_create_infos), pipelines, materials, fails)

\* -------------------------------------------------------------- load_shaderpack
\* Result::value: the ordered passes, or, read from a Result that holds an
\* error, whatever the storage holds.
value_of(result, garbage) == IF result.has_value THEN result.value ELSE garbage

\* the loop over data.graph_data.builtin_passes (lines 309-316)
RECURSIVE add_builtin_passes(_, _)
add_builtin_passes(nova, builtin_passes) ==
    IF builtin_passes = <<>> THEN nova
    ELSE IF Head(builtin_passes) \in DOMAIN nova.builtin_renderpasses
      THEN add_builtin_passes(
               [nova EXCEPT !.renderpasses = Append(@, nova.builtin_renderpasses[Head(builtin_passes)])],
               Tail(builtin_passes))
      ELSE add_builtin_passes(nova, Tail(builtin_passes))

\* lines 304-320: the builtin passes are appended and the pack is loaded,
\* unless an exception left create_render_passes
finish_load(created, builtin_passes) ==
    IF created.threw
      THEN created
      ELSE [add_builtin_passes(created, builtin_passes) EXCEPT !.shaderpack_loaded = TRUE]

unload(nova) ==
    IF nova.shaderpack_loaded
      THEN destroy_renderpasses(destroy_dynamic_resources(nova))
      ELSE nova

\* lines 296-320: what load_shaderpack does once the previous pack is gone
load_new_pack(nova, data, fails, garbage) ==
    finish_load(
        create_render_passes(create_dynamic_textures(nova, data.textures),
                             value_of(order_passes(data.passes), garbage),
                             data.pipelines, data.materials, fails),
        data.builtin_passes)

load_shaderpack(nova, data, fails, garbage) ==
    finish_load(
        create_render_passes(create_dynamic_textures(unload(nova), data.textures),
                             value_of(order_passes(data.passes), garbage),
                             data.pipelines, data.materials, fails),
        data.builtin_passes)

\* ------------------------------------------------------------ construction
UiPass == Pass(UI_RENDER_PASS_NAME, << BACKBUFFER_NAME >>, << Out(BACKBUFFER_NAME, "RGBA8") >>, <<>>)

NoFails == [renderpass |-> {}, interface |-> {}, pipeline |-> {}]

\* create_builtin_textures: the scene output render target
create_builtin_textures(nova) ==
    [new_handle(nova, "image",
                [name |-> SCENE_OUTPUT_RENDER_TARGET_NAME, dimension_type |-> "ScreenRelative",
                 width |-> 1, height |-> 1, pixel_format |-> "RGBA8"])
        EXCEPT !.builtin_images = emplace(@, SCENE_OUTPUT_RENDER_TARGET_NAME, nova.next_handle)]

\* create_uniform_buffers: the per-frame data and the model matrix buffers
create_uniform_buffers(nova) ==
    LET per_frame == [new_handle(nova, "buffer", PER_FRAME_DATA_NAME)
                         EXCEPT !.builtin_buffers = emplace(@, PER_FRAME_DATA_NAME, nova.next_handle)]
    IN [new_handle(per_frame, "buffer", MODEL_MATRIX_BUFFER_NAME)
           EXCEPT !.builtin_buffers = emplace(@, MODEL_MATRIX_BUFFER_NAME, per_frame.next_handle)]

\* create_builtin_renderpasses, on the members as the constructor left them
create_builtin_renderpasses(nova, fails) ==
    LET ui_renderpass == Len(nova.rp_heap) + 1
        added == add_render_pass([nova EXCEPT !.rp_heap = Append(@, NewRenderpass)],
                                 UiPass, <<>>, <<>>, ui_renderpass, fails)
    IN [added EXCEPT !.rp_heap[ui_renderpass].is_builtin = TRUE,
                     !.builtin_renderpasses = assign(@, UI_RENDER_PASS_NAME, ui_renderpass)]

Constructed(fails) ==
    create_builtin_renderpasses(create_uniform_buffers(create_builtin_textures(
        [shaderpack_loaded |-> FALSE,
         dynamic_textures |-> EmptyMap,
         dynamic_texture_infos |-> EmptyMap,
         renderpasses |-> <<>>,
         rp_heap |-> <<>>,
         builtin_renderpasses |-> EmptyMap,
         renderpass_metadatas |-> EmptyMap,
         material_pass_keys |-> EmptyMap,
         builtin_images |-> EmptyMap,
         builtin_buffers |-> EmptyMap,
         meshes |-> EmptyMap,
         proc_meshes |-> EmptyMap,
         next_handle |-> 1,
         handle_info |-> EmptyMap,
         destroy_count |-> EmptyMap,
         load_no |-> 0, log |-> <<>>, arp |-> <<>>, binds |-> <<>>, threw |-> FALSE])),
        fails)

\* ------------------------------------------------------ meshes, renderables
\* create_mesh: vertex buffer, its staging buffer, index buffer, its staging
\* buffer; the mesh is entered under next_mesh_id
create_mesh(nova, new_mesh_id) ==
    LET with_vertex == new_handle(nova, "buffer", "VertexBuffer")
        with_vertex_staging == new_handle(with_vertex, "buffer", "StagingBuffer")
        with_index == new_handle(with_vertex_staging, "buffer", "IndexBuffer")
        with_index_staging == new_handle(with_index, "buffer", "StagingBuffer")
        mesh == [vertex_buffer |-> nova.next_handle, index_buffer |-> with_vertex_staging.next_handle]
    IN [with_index_staging EXCEPT !.meshes = emplace(@, new_mesh_id, mesh)]

\* lines 205-217 and 239-254: the two upload command lists create_mesh
\* submits to the transfer queue, with no fence and no semaphore
uploads(mesh) == << [buffer |-> mesh.vertex_buffer], [buffer |-> mesh.index_buffer] >>

\* create_procedural_mesh
create_procedural_mesh(nova, our_id) ==
    [nova EXCEPT !.proc_meshes = emplace(@, our_id, [key |-> our_id])]

\* make_render_command(renderable, id)
make_render_command(renderable, id) == [id |-> id, mesh |-> renderable.mesh]

\* the loop over material.static_mesh_draws (lines 766-773): the index of the
\* first batch with this vertex buffer, 0 when there is none
find_batch_never(static_mesh_draws, vertex_buffer) == 0

find_batch(static_mesh_draws, vertex_buffer) ==
    IF \E i \in 1..Len(static_mesh_draws) : static_mesh_draws[i].vertex_buffer = vertex_buffer
      THEN CHOOSE i \in 1..Len(static_mesh_draws) :
               /\ static_mesh_draws[i].vertex_buffer = vertex_buffer
               /\ \A j \in 1..(i - 1) : static_mesh_draws[j].vertex_buffer # vertex_buffer
      ELSE 0

\* lines 760-783: a static renderable of a mesh of the meshes table
add_static_mesh_draw(material, mesh, command) ==
    LET found == find_batch(material.static_mesh_draws, mesh.vertex_buffer)
    IN IF found # 0
         THEN [material EXCEPT !.static_mesh_draws[found].commands = Append(@, command)]
         ELSE [material EXCEPT !.static_mesh_draws =
                   Append(@, [vertex_buffer |-> mesh.vertex_buffer,
                              index_buffer |-> mesh.index_buffer,
                              commands |-> << command >>])]

\* bool need_to_add_batch = false (line 787)
need_to_add_batch_initially == FALSE

\* lines 785-804: a static renderable of a mesh of the proc_meshes table
add_procedural_mesh_draw(material, mesh_id, command) ==
    LET draws == material.static_procedural_mesh_draws
        found == IF \E i \in 1..Len(draws) : draws[i].mesh = mesh_id
                   THEN CHOOSE i \in 1..Len(draws) :
                            draws[i].mesh = mesh_id /\ \A j \in 1..(i - 1) : draws[j].mesh # mesh_id
                   ELSE 0
        need_to_add_batch == need_to_add_batch_initially    \* never set to true by the loop
    IN IF found # 0
         THEN [material EXCEPT !.static_procedural_mesh_draws[found].commands = Append(@, command)]
       ELSE IF need_to_add_batch
         THEN [material EXCEPT !.static_procedural_mesh_draws =
                   Append(@, [mesh |-> mesh_id, commands |-> << command >>])]
       ELSE material

\* add_renderable_for_material from line 745 on, id being the value read
\* from next_renderable_id: [nova, result, threw]
place_renderable_unchecked(nova, material_name, renderable, id) ==
    [nova |-> nova, result |-> id, threw |-> FALSE]

place_renderable(nova, material_name, renderable, id) ==
    IF material_name \notin DOMAIN nova.material_pass_keys
      THEN [nova |-> nova, result |-> RENDERABLE_ID_MAX, threw |-> FALSE]
    ELSE LET pass_key == nova.material_pass_keys[material_name]
             r == pass_key.renderpass_index + 1
             p == pass_key.pipeline_index + 1
             m == pass_key.material_pass_index + 1
         IN IF \/ r > Len(nova.renderpasses)
               \/ p > Len(nova.rp_heap[nova.renderpasses[r]].pipelines)
               \/ m > Len(nova.rp_heap[nova.renderpasses[r]].pipelines[p].passes)
              THEN [nova |-> nova, result |-> id, threw |-> TRUE]     \* .at() throws
            ELSE LET material == nova.rp_heap[nova.renderpasses[r]].pipelines[p].passes[m]
                     command == make_render_command(renderable, id)
                     placed ==
                         IF renderable.mesh \in DOMAIN nova.meshes
                           THEN IF renderable.is_static
                                  THEN add_static_mesh_draw(material, nova.meshes[renderable.mesh], command)
                                  ELSE material
                         ELSE IF renderable.mesh \in DOMAIN nova.proc_meshes
                           THEN IF renderable.is_static
                                  THEN add_procedural_mesh_draw(material, renderable.mesh, command)
                                  ELSE material
                         ELSE material
                 IN [nova |-> [nova EXCEPT
                                  !.rp_heap[nova.renderpasses[r]].pipelines[p].passes[m] = placed],
                     result |-> id, threw |-> FALSE]

\* ------------------------------------------------ create_pipeline_interface
\* a spirv_cross::Resource with its DescriptorSet and Binding decorations and
\* the array dimensions of its type
Resource(name, set, binding, array) ==
    [name |-> name, set |-> set, binding |-> binding, array |-> array]

\* the stages of a PipelineCreateInfo, in the order create_pipeline_interface
\* reflects them
StageOrder ==
    << "Vertex", "TessellationControl", "TessellationEvaluation", "Geometry", "Fragment" >>

\* spirv_cross::ShaderResources of the shaders given to the pipeline
SampledImageChoices ==
    { <<>>, << Resource("tex", 0, 1, <<>>) >>, << Resource("tex", 0, 1, << 4 >>) >> }

UniformBufferChoices ==
    { <<>>, << Resource("Globals", 0, 0, <<>>) >>, << Resource("Globals", 0, 1, <<>>) >> }

StorageBufferChoices ==
    { <<>>, << Resource("lights", 1, 0, <<>>) >>, << Resource("Globals", 0, 0, <<>>) >> }

Shaders ==
    [sampled_images : SampledImageChoices,
     uniform_buffers : UniformBufferChoices,
     storage_buffers : StorageBufferChoices]

\* vertex_shader is always there, fragment_shader is optional
PipelineCreateInfos ==
    [{"Vertex"} -> Shaders] \cup [{"Vertex", "Fragment"} -> Shaders]

NoShaders == [sampled_images |-> <<>>, uniform_buffers |-> <<>>, storage_buffers |-> <<>>]

\* new_binding of add_resource_to_bindings (lines 674-686)
new_binding(shader_stage, resource, type) ==
    [set |-> resource.set,
     binding |-> resource.binding,
     type |-> type,
     count |-> IF resource.array = <<>> THEN 1 ELSE resource.array[1],
     is_unbounded |-> resource.array # <<>>,
     stages |-> {shader_stage}]

\* existing_binding != new_binding: ResourceBindingDescription differ in
\* set, binding, kind or count
bindings_differ(existing_binding, candidate) ==
    \/ existing_binding.set # candidate.set
    \/ existing_binding.binding # candidate.binding
    \/ existing_binding.type # candidate.type
    \/ existing_binding.count # candidate.count

\* existing_binding.stages |= shader_stage
merge_stages_toggling(stages, shader_stage) ==
    (stages \ {shader_stage}) \cup ({shader_stage} \ stages)

merge_stages(stages, shader_stage) == stages \cup {shader_stage}

\* add_resource_to_bindings: st = [bindings, errors], errors the names the
\* "two different uniforms" message was logged for
add_resource_to_bindings_first_stage_only(st, shader_stage, resource, type) ==
    IF resource.name \in DOMAIN st.bindings
      THEN IF bindings_differ(st.bindings[resource.name], new_binding(shader_stage, resource, type))
             THEN [st EXCEPT !.errors = Append(@, resource.name)]
             ELSE st
      ELSE [st EXCEPT !.bindings = assign(@, resource.name, new_binding(shader_stage, resource, type))]

add_resource_to_bindings(st, shader_stage, resource, type) ==
    IF resource.name \in DOMAIN st.bindings
      THEN IF bindings_differ(st.bindings[resource.name], new_binding(shader_stage, resource, type))
             THEN [st EXCEPT !.errors = Append(@, resource.name)]
             ELSE [st EXCEPT !.bindings[resource.name].stages = merge_stages(@, shader_stage)]
      ELSE [st EXCEPT !.bindings = assign(@, resource.name, new_binding(shader_stage, resource, type))]

\* one of the three loops of get_shader_module_descriptors
RECURSIVE add_resources(_, _, _, _)
add_resources(st, shader_stage, resources, type) ==
    IF resources = <<>> THEN st
    ELSE add_resources(add_resource_to_bindings(st, shader_stage, Head(resources), type),
                       shader_stage, Tail(resources), type)

\* get_shader_module_descriptors(spirv, shader_stage, bindings)
get_shader_module_descriptors(shader, shader_stage, st) ==
    add_resources(
        add_resources(
            add_resources(st, shader_stage, shader.sampled_images, "CombinedImageSampler"),
            shader_stage, shader.uniform_buffers, "UniformBuffer"),
        shader_stage, shader.storage_buffers, "StorageBuffer")

\* create_pipeline_interface up to the backend call: the stages that are
\* there, reflected into a local map in the order of lines 600-617
RECURSIVE reflect_stages(_, _, _)
reflect_stages(create_info, stages, st) ==
    IF stages = <<>> THEN st
    ELSE IF Head(stages) \in DOMAIN create_info
      THEN reflect_stages(create_info, Tail(stages),
               get_shader_module_descriptors(create_info[Head(stages)], Head(stages), st))
      ELSE reflect_stages(create_info, Tail(stages), st)

\* create_pipeline_interface: the map goes to rhi->create_pipeline_interface
\* and the backend's Result is returned
create_pipeline_interface(create_info, backend_has_value) ==
    [called |-> TRUE,
     has_value |-> backend_has_value,
     bindings |-> reflect_stages(create_info, StageOrder, [bindings |-> EmptyMap, errors |-> <<>>]).bindings,
     errors |-> reflect_stages(create_info, StageOrder, [bindings |-> EmptyMap, errors |-> <<>>]).errors]

NoPipelineInterface == [called |-> FALSE, has_value |-> FALSE, bindings |-> EmptyMap, errors |-> <<>>]

\* ------------------------------------------------------ global GPU pools
\* the size of a request, rounded up to the alignment of the pool
align(size) == ((size + Alignment - 1) \div Alignment) * Alignment

\* BlockAllocationStrategy over a block of PoolSize: the free ranges in
\* address order, and the allocations handed out and not freed
NewBlockAllocationStrategy ==
    [free |-> << [offset |-> 0, size |-> PoolSize] >>, live |-> <<>>]

\* BumpPointAllocationStrategy over a block of PoolSize: one offset
NewBumpPointAllocationStrategy == [offset |-> 0]

\* the index of the first free range that is large enough, 0 when none is
first_fit(free, need) ==
    IF \E i \in 1..Len(free) : free[i].size >= need
      THEN CHOOSE i \in 1..Len(free) :
               /\ free[i].size >= need
               /\ \A j \in 1..(i - 1) : free[j].size < need
      ELSE 0

\* the free list after the first `need` bytes of range i are handed out: the
\* range is split and its remainder stays in the list
take_range_keeping(free, i, need) == free

take_range(free, i, need) ==
    IF free[i].size = need
      THEN [k \in 1..(Len(free) - 1) |-> IF k < i THEN free[k] ELSE free[k + 1]]
      ELSE [free EXCEPT ![i] = [offset |-> free[i].offset + need, size |-> free[i].size - need]]

\* BlockAllocationStrategy::allocate
block_allocate(strategy, size) ==
    IF first_fit(strategy.free, align(size)) = 0
      THEN [ok |-> FALSE, offset |-> 0, strategy |-> strategy]
      ELSE [ok |-> TRUE,
            offset |-> strategy.free[first_fit(strategy.free, align(size))].offset,
            strategy |->
               [free |-> take_range(strategy.free, first_fit(strategy.free, align(size)), align(size)),
                live |-> Append(strategy.live,
                                [offset |-> strategy.free[first_fit(strategy.free, align(size))].offset,
                                 size |-> align(size)])]]

\* a range entered into the free list at its place in address order
insert_range(free, range) ==
    SelectSeq(free, LAMBDA r : r.offset < range.offset) \o << range >> \o
    SelectSeq(free, LAMBDA r : r.offset > range.offset)

\* adjacent free ranges become one
RECURSIVE coalesce(_)
coalesce(free) ==
    IF Len(free) < 2 THEN free
    ELSE IF free[1].offset + free[1].size = free[2].offset
      THEN coalesce(<< [offset |-> free[1].offset, size |-> free[1].size + free[2].size] >>
                    \o Tail(Tail(free)))
      ELSE << free[1] >> \o coalesce(Tail(free))

\* BlockAllocationStrategy::free of the i-th live allocation
block_free(strategy, i) ==
    [free |-> coalesce(insert_range(strategy.free, strategy.live[i])),
     live |-> [k \in 1..(Len(strategy.live) - 1) |->
                  IF k < i THEN strategy.live[k] ELSE strategy.live[k + 1]]]

\* the free space the block strategy reports
RECURSIVE free_space(_)
free_space(free) == IF free = <<>> THEN 0 ELSE free[1].size + free_space(Tail(free))

\* BumpPointAllocationStrategy::allocate
bump_allocate_advancing(strategy, size) ==
    [ok |-> strategy.offset + align(size) <= PoolSize,
     offset |-> strategy.offset,
     strategy |-> [offset |-> strategy.offset + align(size)]]

bump_allocate(strategy, size) ==
    IF strategy.offset + align(size) > PoolSize
      THEN [ok |-> FALSE, offset |-> strategy.offset, strategy |-> strategy]
      ELSE [ok |-> TRUE, offset |-> strategy.offset,
            strategy |-> [offset |-> strategy.offset + align(size)]]

\* a unique_ptr<DeviceMemoryResource> that holds nothing
NullPool == <<>>

is_null(pointer) == Len(pointer) = 0

\* create_global_gpu_pools: each pool is made only when allocate_device_memory
\* answered with memory; otherwise an error is logged and the pointer stays empty
create_global_gpu_pools(mesh_ok, ubo_ok, staging_ok) ==
    [mesh_memory |-> IF mesh_ok THEN << NewBlockAllocationStrategy >> ELSE NullPool,
     ubo_memory |-> IF ubo_ok THEN << NewBumpPointAllocationStrategy >> ELSE NullPool,
     staging_buffer_memory |-> IF staging_ok THEN << NewBumpPointAllocationStrategy >> ELSE NullPool]

\* what `*pointer` can do for each of the pointers: defined when all hold a
\* pool; with an empty one the behaviour is undefined, and the build either
\* stops the program there or goes on with a reference to nothing
dereference(pointers) ==
    IF \E i \in 1..Len(pointers) : is_null(pointers[i])
      THEN {"crash", "garbage"}
      ELSE {"defined"}

\* the `*pool` expressions an operation evaluates, in order, up to the one
\* that stops the program
RECURSIVE dereferenced(_, _, _)
dereferenced(op, pools, outcome) ==
    IF pools = <<>> THEN <<>>
    ELSE IF is_null(pools[1].pointer) /\ outcome = "crash"
      THEN << [op |-> op, pool |-> pools[1].pool, null |-> TRUE] >>
      ELSE << [op |-> op, pool |-> pools[1].pool, null |-> is_null(pools[1].pointer)] >>
           \o dereferenced(op, Tail(pools), outcome)

\* the `*ubo_memory` of create_uniform_buffers
uniform_pool_dereferences(pointer, outcome) ==
    dereferenced("create_uniform_buffers", << [pool |-> "ubo_memory", pointer |-> pointer] >>, outcome)

\* one rhi->create_buffer(info, pool) as the pool's strategy answered it
allocation_event(pool, made) ==
    [op |-> "create_buffer", pool |-> pool, null |-> FALSE, size |-> made.size,
     ok |-> made.ok, offset |-> made.offset, before |-> made.before, after |-> made.strategy.offset]

\* a buffer of `size` bytes taken from the staging pool; the pool is never
\* reset and its buffers are never given back (line 256: TODO)
staging_buffer(strategy, size) ==
    [ok |-> bump_allocate(strategy, size).ok,
     offset |-> bump_allocate(strategy, size).offset,
     strategy |-> bump_allocate(strategy, size).strategy,
     size |-> align(size),
     before |-> strategy.offset]

\* lines 192, 200, 231, 236 of create_mesh: the vertex and index buffers come
\* from mesh_memory, their staging buffers from staging_buffer_memory
mesh_buffers(mesh_pool, staging_pool, vertex_size, index_size) ==
    IF is_null(mesh_pool) \/ is_null(staging_pool)
      THEN [mesh_memory |-> mesh_pool, staging_buffer_memory |-> staging_pool,
            staged |-> <<>>, ok |-> TRUE]
      ELSE LET vertex == block_allocate(mesh_pool[1], vertex_size)
               index == block_allocate(vertex.strategy, index_size)
               staging_vertex == staging_buffer(staging_pool[1], vertex_size)
               staging_index == staging_buffer(staging_vertex.strategy, index_size)
           IN [mesh_memory |-> << index.strategy >>,
               staging_buffer_memory |-> << staging_index.strategy >>,
               staged |-> << allocation_event("staging_buffer_memory", staging_vertex),
                             allocation_event("staging_buffer_memory", staging_index) >>,
               ok |-> vertex.ok /\ index.ok /\ staging_vertex.ok /\ staging_index.ok]

\* what create_mesh can do with the buffers it got: defined when every pool
\* exists and every create_buffer gave a buffer; otherwise it goes on with an
\* empty pointer, which is undefined
mesh_outcomes(mesh_pool, staging_pool, buffers) ==
    IF buffers.ok THEN dereference(<< mesh_pool, staging_pool >>) ELSE {"crash", "garbage"}

\* the members of NovaRenderer, as one record
This ==
    [shaderpack_loaded |-> shaderpack_loaded,
     dynamic_textures |-> dynamic_textures,
     dynamic_texture_infos |-> dynamic_texture_infos,
     renderpasses |-> renderpasses,
     rp_heap |-> rp_heap,
     builtin_renderpasses |-> builtin_renderpasses,
     renderpass_metadatas |-> renderpass_metadatas,
     material_pass_keys |-> material_pass_keys,
     builtin_images |-> builtin_images,
     builtin_buffers |-> builtin_buffers,
     meshes |-> meshes,
     proc_meshes |-> proc_meshes,
     next_handle |-> next_handle,
     handle_info |-> handle_info,
     destroy_count |-> destroy_count,
     load_no |-> Len(load_history), log |-> <<>>, arp |-> <<>>, binds |-> <<>>,
     threw |-> FALSE]

\* the tables by name and attributes, without the handles
TextureTable(nova) ==
    {[name |-> n, info |-> nova.handle_info[nova.dynamic_textures[n]].of] : n \in DOMAIN nova.dynamic_textures}

PipelineView(pipeline) ==
    [name |-> pipeline.name,
     passes |-> [k \in 1..Len(pipeline.passes) |-> pipeline.passes[k].data]]

RenderpassView(rp) ==
    [desc |-> rp.desc, is_builtin |-> rp.is_builtin,
     pipelines |-> [k \in 1..Len(rp.pipelines) |-> PipelineView(rp.pipelines[k])]]

PassTable(nova) ==
    [k \in 1..Len(nova.renderpasses) |-> RenderpassView(nova.rp_heap[nova.renderpasses[k]])]

\* the members after NovaRenderer::NovaRenderer
Constructor ==
    /\ \E ui_fails \in {NoFails, [NoFails EXCEPT !.renderpass = {UI_RENDER_PASS_NAME}]} :
         \E nova \in {Constructed(ui_fails)} :
            /\ backend_failures = IF ui_fails = NoFails THEN 0 ELSE 1
            /\ shaderpack_loaded = nova.shaderpack_loaded
            /\ dynamic_textures = nova.dynamic_textures
            /\ dynamic_texture_infos = nova.dynamic_texture_infos
            /\ renderpasses = nova.renderpasses
            /\ rp_heap = nova.rp_heap
            /\ builtin_renderpasses = nova.builtin_renderpasses
            /\ renderpass_metadatas = nova.renderpass_metadatas
            /\ material_pass_keys = nova.material_pass_keys
            /\ builtin_images = nova.builtin_images
            /\ builtin_buffers = nova.builtin_buffers
            /\ next_handle = nova.next_handle
            /\ handle_info = nova.handle_info
            /\ destroy_count = nova.destroy_count
    /\ meshes = EmptyMap
    /\ proc_meshes = EmptyMap
    /\ next_mesh_id = 0
    /\ next_renderable_id = 0
    /\ renderables = <<>>
    /\ thr = [t \in Threads |->
                 [pc |-> "idle", id |-> 0,
                  call |-> [material_name |-> << "", "" >>, mesh |-> 0, is_static |-> FALSE]]]
    /\ arp_log = <<>>
    /\ bind_log = <<>>
    /\ pc = "idle"
    /\ frame_count = 0
    /\ cur_frame_idx = 0
    /\ frame_fences = create_fences
    /\ cmds = [id |-> 0, recorded |-> <<>>, submitted |-> FALSE]
    /\ gpu_queue = <<>>
    /\ frame_log = <<>>
    /\ load_history = <<>>
    /\ load_log = <<>>
    /\ last_load = [pack |-> "", ordered |-> TRUE, passes |-> <<>>, fails |-> NoFails,
                    was_loaded |-> FALSE, textures_before |-> {}, passes_before |-> <<>>]
    /\ snapshot_first = [textures |-> {}, passes |-> <<>>, ordered |-> TRUE]

\* no pipeline interface is being built, no thread is in load_shaderpack
NoReflection ==
    /\ loading = [t \in Threads |-> [pc |-> "idle", pack |-> ""]]
    /\ transfer_queue = <<>>
    /\ shader_stages = [stage \in {"Vertex"} |-> NoShaders]
    /\ reflected_bindings = EmptyMap
    /\ reflection_log = <<>>
    /\ pipeline_interface = NoPipelineInterface

\* create_global_gpu_pools got all three pools, create_uniform_buffers used
\* the uniform pool
PoolsAllocated ==
    /\ \E pools \in {create_global_gpu_pools(TRUE, TRUE, TRUE)} :
          /\ mesh_memory = pools.mesh_memory
          /\ ubo_memory = pools.ubo_memory
          /\ staging_buffer_memory = pools.staging_buffer_memory
          /\ memory_log = uniform_pool_dereferences(pools.ubo_memory, "defined")
    /\ terminated = FALSE

Init ==
    /\ Constructor
    /\ NoReflection
    /\ PoolsAllocated

\* the constructor, whatever allocate_device_memory answered
InitPools ==
    /\ Constructor
    /\ NoReflection
    /\ \E mesh_ok, ubo_ok, staging_ok \in BOOLEAN :
          \E pools \in {create_global_gpu_pools(mesh_ok, ubo_ok, staging_ok)} :
             \E outcome \in dereference(<< pools.ubo_memory >>) :
                /\ mesh_memory = pools.mesh_memory
                /\ ubo_memory = pools.ubo_memory
                /\ staging_buffer_memory = pools.staging_buffer_memory
                /\ memory_log = uniform_pool_dereferences(pools.ubo_memory, outcome)
                /\ terminated = (outcome = "crash")

\* the shaders of one pipeline, about to be reflected
InitReflection ==
    /\ Constructor
    /\ shader_stages \in PipelineCreateInfos
    /\ reflected_bindings = EmptyMap
    /\ reflection_log = <<>>
    /\ pipeline_interface = NoPipelineInterface
    /\ loading = [t \in Threads |-> [pc |-> "idle", pack |-> ""]]
    /\ transfer_queue = <<>>
    /\ PoolsAllocated

\* what the backend may refuse during one load: nothing, the renderpass of the
\* first declared pass, or the interface or the pipeline of the first pipeline
FailuresWithin(data, budget) ==
    IF backend_failures >= budget THEN {NoFails} ELSE
    {NoFails,
     [NoFails EXCEPT !.renderpass = {data.passes[1].name}],
     [NoFails EXCEPT !.interface = {data.pipelines[1].name}],
     [NoFails EXCEPT !.pipeline = {data.pipelines[1].name}]}

Failures(data) == FailuresWithin(data, MaxBackendFailures)

\* what Result::value can hold when order_passes failed: nothing, or the
\* passes it was given
GarbageValues(data) == {<<>>, data.passes}

\* load_shaderpack of one of the given renderpacks, the backend refusing a
\* creation only while fewer than budget refusals have happened
Load(packs, budget) ==
    /\ ~terminated
    /\ pc = "idle"
    /\ Len(load_history) < MaxLoads
    /\ \E data \in packs : \E fails \in FailuresWithin(data, budget) : \E garbage \in GarbageValues(data) :
         \E result \in {order_passes(data.passes)},
            nova \in {load_shaderpack([This EXCEPT !.load_no = @ + 1], data, fails, garbage)} :
            /\ shaderpack_loaded' = nova.shaderpack_loaded
            /\ dynamic_textures' = nova.dynamic_textures
            /\ dynamic_texture_infos' = nova.dynamic_texture_infos
            /\ renderpasses' = nova.renderpasses
            /\ rp_heap' = nova.rp_heap
            /\ builtin_renderpasses' = nova.builtin_renderpasses
            /\ renderpass_metadatas' = nova.renderpass_metadatas
            /\ material_pass_keys' = nova.material_pass_keys
            /\ next_handle' = nova.next_handle
            /\ handle_info' = nova.handle_info
            /\ destroy_count' = nova.destroy_count
            /\ load_log' = nova.log
            /\ arp_log' = nova.arp
            /\ bind_log' = nova.binds
            /\ backend_failures' = IF fails = NoFails THEN backend_failures ELSE backend_failures + 1
            /\ terminated' = nova.threw
            /\ load_history' = Append(load_history, data.name)
            /\ last_load' = [pack |-> data.name,
                             ordered |-> result.has_value,
                             passes |-> value_of(result, garbage),
                             fails |-> fails,
                             was_loaded |-> shaderpack_loaded,
                             textures_before |-> {dynamic_textures[n] : n \in DOMAIN dynamic_textures},
                             passes_before |-> renderpasses]
            /\ snapshot_first' = IF load_history = <<>>
                                   THEN [textures |-> TextureTable(nova), passes |-> PassTable(nova),
                                         ordered |-> result.has_value]
                                   ELSE snapshot_first
    /\ UNCHANGED << builtin_images, builtin_buffers >>
    /\ UNCHANGED frame_vars
    /\ UNCHANGED other_vars
    /\ UNCHANGED mesh_vars

LoadShaderpack ==
    /\ HostCalls < MaxOps
    /\ Load(Packs, MaxBackendFailures)

\* load_shaderpack of a renderpack that exercises add_render_pass
LoadPassPack == Load(PassPacks, MaxBackendFailures)

\* set_ui_renderpass(ui_renderpass): the host hands in a Renderpass object of
\* its own, with the backend renderpass it made for it and the is_builtin it
\* chose; load -1 marks an object made by the host.
SetUiRenderpass ==
    /\ ~terminated
    /\ pc = "idle"
    /\ Cardinality({i \in 1..Len(rp_heap) : rp_heap[i].load = -1}) < MaxUiPasses
    /\ HostCalls < MaxOps
    /\ \E is_builtin \in BOOLEAN :
         \E made \in {new_handle(This, "renderpass", "NovaUI")},
            ui_renderpass \in {Len(rp_heap) + 1} :
            /\ rp_heap' = Append(rp_heap,
                                 [NewRenderpass EXCEPT !.is_builtin = is_builtin,
                                                       !.writes_to_backbuffer = TRUE,
                                                       !.renderpass = next_handle,
                                                       !.desc = UiPass,
                                                       !.load = -1])
            /\ builtin_renderpasses' = assign(builtin_renderpasses, "NovaUI", ui_renderpass)
            /\ next_handle' = made.next_handle
            /\ handle_info' = made.handle_info
            /\ destroy_count' = made.destroy_count
    /\ UNCHANGED << shaderpack_loaded, dynamic_textures, dynamic_texture_infos, renderpasses,
                    renderpass_metadatas, material_pass_keys, builtin_images, builtin_buffers,
                    load_history, load_log, arp_log, bind_log, last_load, snapshot_first,
                backend_failures, terminated >>
    /\ UNCHANGED frame_vars
    /\ UNCHANGED other_vars
    /\ UNCHANGED mesh_vars

\* load_shaderpack of a renderpack with materials to add renderables to
LoadScenePack ==
    /\ Len(load_history) < MaxSceneLoads
    /\ \A t \in Threads : thr[t].pc = "idle"
    /\ Load(ScenePacks, 0)

take_mesh_id_first(next) == [id |-> 0, next_mesh_id |-> next + 1]

\* MeshId new_mesh_id = next_mesh_id; next_mesh_id++; (lines 262-263, 275-276)
take_mesh_id(next) == [id |-> next, next_mesh_id |-> next + 1]

\* create_mesh(mesh_data), the vertex data and the index data of mesh_data
\* having one of the given sizes
CreateMeshOf(sizes) ==
    /\ ~terminated
    /\ next_mesh_id < MaxMeshes
    /\ \E vertex_size, index_size \in sizes :
       \E buffers \in {mesh_buffers(mesh_memory, staging_buffer_memory, vertex_size, index_size)} :
       \E outcome \in mesh_outcomes(mesh_memory, staging_buffer_memory, buffers) :
          /\ mesh_memory' = buffers.mesh_memory
          /\ staging_buffer_memory' = buffers.staging_buffer_memory
          /\ memory_log' = memory_log \o
                 dereferenced("create_mesh",
                              << [pool |-> "mesh_memory", pointer |-> mesh_memory],
                                 [pool |-> "staging_buffer_memory", pointer |-> staging_buffer_memory] >>,
                              outcome)
                 \o buffers.staged
          /\ terminated' = (outcome = "crash")
          /\ \E new_mesh_id \in {take_mesh_id(next_mesh_id).id} :
             \E nova \in {IF outcome = "crash" THEN This ELSE create_mesh(This, new_mesh_id)} :
                /\ meshes' = nova.meshes
                /\ next_handle' = nova.next_handle
                /\ handle_info' = nova.handle_info
                /\ destroy_count' = nova.destroy_count
                /\ transfer_queue' = IF outcome = "crash"
                                       THEN transfer_queue
                                       ELSE transfer_queue \o uploads(nova.meshes[new_mesh_id])
          /\ next_mesh_id' = IF outcome = "crash" THEN next_mesh_id
                                                  ELSE take_mesh_id(next_mesh_id).next_mesh_id
    /\ UNCHANGED << shaderpack_loaded, dynamic_textures, dynamic_texture_infos, renderpasses,
                    rp_heap, builtin_renderpasses, renderpass_metadatas, material_pass_keys,
                    builtin_images, builtin_buffers,
                    load_history, load_log, arp_log, bind_log, last_load, snapshot_first,
                    backend_failures >>
    /\ UNCHANGED << proc_meshes, next_renderable_id, renderables, thr >>
    /\ UNCHANGED frame_vars
    /\ UNCHANGED << reflection_vars, ubo_memory, loading >>

\* create_mesh of a mesh without data, which takes nothing from the pools
CreateMesh == CreateMeshOf({0})

\* create_mesh of a mesh with vertex and index data
CreateStagedMesh == CreateMeshOf(1..MaxRequest)

\* create_procedural_mesh(vertex_size, index_size)
CreateProceduralMesh ==
    /\ ~terminated
    /\ next_mesh_id < MaxMeshes
    /\ proc_meshes' = create_procedural_mesh(This, take_mesh_id(next_mesh_id).id).proc_meshes
    /\ next_mesh_id' = take_mesh_id(next_mesh_id).next_mesh_id
    /\ UNCHANGED << meshes, next_renderable_id, renderables, thr >>
    /\ UNCHANGED pack_vars
    /\ UNCHANGED frame_vars
    /\ UNCHANGED other_vars

\* the add_renderable_for_material calls begun so far
CallsBegun == Len(renderables) + Cardinality({t \in Threads : thr[t].pc # "idle"})

\* what a returning add_renderable_for_material call leaves behind
Returned(t, call, placed) ==
    /\ rp_heap' = placed.nova.rp_heap
    /\ terminated' = placed.threw
    /\ renderables' = Append(renderables,
                              [material_name |-> call.material_name, mesh |-> call.mesh,
                               is_static |-> call.is_static, id |-> placed.result,
                               threw |-> placed.threw, thread |-> t,
                               load |-> Len(load_history),
                               static_mesh |-> call.mesh \in DOMAIN meshes,
                               proc_mesh |-> call.mesh \in DOMAIN proc_meshes])
    /\ UNCHANGED << shaderpack_loaded, dynamic_textures, dynamic_texture_infos, renderpasses,
                    builtin_renderpasses, renderpass_metadatas, material_pass_keys,
                    builtin_images, builtin_buffers, next_handle, handle_info, destroy_count,
                    load_history, load_log, arp_log, bind_log, last_load, snapshot_first,
                    backend_failures >>
    /\ UNCHANGED << meshes, proc_meshes, next_mesh_id >>
    /\ UNCHANGED frame_vars
    /\ UNCHANGED other_vars

\* add_renderable_for_material(material_name, renderable), run by one thread
\* from its first to its last line
AddRenderableForMaterial ==
    /\ ~terminated
    /\ CallsBegun < MaxRenderables
    /\ \A t \in Threads : thr[t].pc = "idle"
    /\ \E material_name \in MaterialNames, mesh \in MeshIds, is_static \in BOOLEAN :
         \E call \in {[material_name |-> material_name, mesh |-> mesh, is_static |-> is_static]} :
         \E id \in {next_renderable_id} :
         \E placed \in {place_renderable(This, material_name, call, id)} :
            /\ next_renderable_id' = next_renderable_id + 1
            /\ Returned(1, call, placed)
    /\ UNCHANGED thr

\* The same call run by one of several threads, step by step.
\* const RenderableId id = next_renderable_id.load();
Thread_Load(t) ==
    /\ ~terminated
    /\ thr[t].pc = "idle"
    /\ CallsBegun < MaxRenderables
    /\ \E material_name \in MaterialNames, mesh \in MeshIds, is_static \in BOOLEAN :
          thr' = [thr EXCEPT ![t] = [pc |-> "fetch_add", id |-> next_renderable_id,
                                     call |-> [material_name |-> material_name, mesh |-> mesh,
                                               is_static |-> is_static]]]
    /\ UNCHANGED << meshes, proc_meshes, next_mesh_id, next_renderable_id, renderables >>
    /\ UNCHANGED pack_vars
    /\ UNCHANGED frame_vars
    /\ UNCHANGED other_vars

\* next_renderable_id.fetch_add(1);
Thread_FetchAdd(t) ==
    /\ ~terminated
    /\ thr[t].pc = "fetch_add"
    /\ next_renderable_id' = next_renderable_id + 1
    /\ thr' = [thr EXCEPT ![t].pc = "place"]
    /\ UNCHANGED << meshes, proc_meshes, next_mesh_id, renderables >>
    /\ UNCHANGED pack_vars
    /\ UNCHANGED frame_vars
    /\ UNCHANGED other_vars

\* lines 745-809: the renderable is placed and the id read at first returned
Thread_Place(t) ==
    /\ ~terminated
    /\ thr[t].pc = "place"
    /\ \E placed \in {place_renderable(This, thr[t].call.material_name, thr[t].call, thr[t].id)} :
          Returned(t, thr[t].call, placed)
    /\ thr' = [thr EXCEPT ![t].pc = "idle"]
    /\ UNCHANGED next_renderable_id

\* ----------------------------------------------------------- execute_frame
\* frame_count++; cur_frame_idx = acquire_next_swapchain_image()
ExecuteFrame_Acquire ==
    /\ ~terminated
    /\ pc = "idle"
    /\ frame_count < MaxFrames
    /\ HostCalls < MaxOps
    /\ \E i \in 0..(NUM_IN_FLIGHT_FRAMES - 1) :
          /\ cur_frame_idx' = i
          /\ frame_log' = << Call("acquire", i) >>
    /\ frame_count' = frame_count + 1
    /\ cmds' = [id |-> 0, recorded |-> <<>>, submitted |-> FALSE]
    /\ pc' = "reset_fences"
    /\ UNCHANGED << frame_fences, gpu_queue >>
    /\ UNCHANGED pack_vars
    /\ UNCHANGED mesh_vars
    /\ UNCHANGED other_vars

ExecuteFrame_ResetFences ==
    /\ pc = "reset_fences"
    /\ frame_fences' = reset_fences(frame_fences, cur_frame_idx)
    /\ frame_log' = Append(frame_log, Call("reset_fences", cur_frame_idx))
    /\ pc' = "create_command_list"
    /\ UNCHANGED << frame_count, cur_frame_idx, cmds, gpu_queue >>
    /\ UNCHANGED pack_vars
    /\ UNCHANGED mesh_vars
    /\ UNCHANGED other_vars

ExecuteFrame_CreateCommandList ==
    /\ pc = "create_command_list"
    /\ cmds' = create_command_list(frame_count)
    /\ frame_log' = Append(frame_log, Call("create_command_list", frame_count))
    /\ pc' = "record"
    /\ UNCHANGED << frame_count, cur_frame_idx, frame_fences, gpu_queue >>
    /\ UNCHANGED pack_vars
    /\ UNCHANGED mesh_vars
    /\ UNCHANGED other_vars

\* the procedural-mesh uploads, then renderpass->render(cmds, ctx) for every
\* element of renderpasses, in list order
ExecuteFrame_Record ==
    /\ pc = "record"
    /\ \E recorded \in {record_commands(This, cmds)} :
          /\ cmds' = recorded.cmds
          /\ dynamic_textures' = recorded.nova.dynamic_textures
          /\ builtin_buffers' = recorded.nova.builtin_buffers
          /\ material_pass_keys' = recorded.nova.material_pass_keys
          /\ renderpasses' = recorded.nova.renderpasses
    /\ frame_log' = frame_log \o << Call("record_proc_meshes", cmds.id),
                                     Call("render", cmds.id) >>
    /\ pc' = "submit"
    /\ UNCHANGED << frame_count, cur_frame_idx, frame_fences, gpu_queue >>
    /\ UNCHANGED << shaderpack_loaded, dynamic_texture_infos, rp_heap, builtin_renderpasses,
                    renderpass_metadatas, builtin_images,
                    next_handle, handle_info, destroy_count,
                    load_history, load_log, arp_log, bind_log, last_load, snapshot_first,
                    backend_failures, terminated >>
    /\ UNCHANGED mesh_vars
    /\ UNCHANGED other_vars

ExecuteFrame_Submit ==
    /\ pc = "submit"
    /\ gpu_queue' = Append(gpu_queue, [cmds |-> cmds.id, fence |-> cur_frame_idx])
    /\ cmds' = [cmds EXCEPT !.submitted = TRUE]
    /\ frame_log' = Append(frame_log, Call("submit_command_list", cur_frame_idx))
    /\ pc' = "wait_for_fences"
    /\ UNCHANGED << frame_count, cur_frame_idx, frame_fences >>
    /\ UNCHANGED pack_vars
    /\ UNCHANGED mesh_vars
    /\ UNCHANGED other_vars

\* blocks until the fence is signaled
ExecuteFrame_WaitForFences ==
    /\ pc = "wait_for_fences"
    /\ fence_signaled(frame_fences, cur_frame_idx)
    /\ frame_log' = Append(frame_log,
                           [Call("wait_for_fences", cur_frame_idx)
                               EXCEPT !.by = frame_fences[cur_frame_idx].by])
    /\ pc' = "present"
    /\ UNCHANGED << frame_count, cur_frame_idx, frame_fences, cmds, gpu_queue >>
    /\ UNCHANGED pack_vars
    /\ UNCHANGED mesh_vars
    /\ UNCHANGED other_vars

ExecuteFrame_Present ==
    /\ pc = "present"
    /\ frame_log' = Append(frame_log, Call("present", cur_frame_idx))
    /\ pc' = "idle"
    /\ UNCHANGED << frame_count, cur_frame_idx, frame_fences, cmds, gpu_queue >>
    /\ UNCHANGED pack_vars
    /\ UNCHANGED mesh_vars
    /\ UNCHANGED other_vars

\* The GPU finishes the oldest submitted command list and signals its fence.
GpuComplete ==
    /\ gpu_queue # <<>>
    /\ frame_fences' = signal_fence(frame_fences, Head(gpu_queue).fence, Head(gpu_queue).cmds)
    /\ gpu_queue' = Tail(gpu_queue)
    /\ UNCHANGED << pc, frame_count, cur_frame_idx, cmds, frame_log >>
    /\ UNCHANGED pack_vars
    /\ UNCHANGED mesh_vars
    /\ UNCHANGED other_vars

\* --------------------------------------------------- pipeline interfaces
\* get_shader_module_descriptors(shader, stage, bindings) on the map built so far
GetShaderModuleDescriptors ==
    /\ Len(reflection_log) < MaxReflections
    /\ \E shader_stage \in DOMAIN shader_stages :
         \E st \in {get_shader_module_descriptors(shader_stages[shader_stage], shader_stage,
                        [bindings |-> reflected_bindings, errors |-> <<>>])} :
            /\ reflected_bindings' = st.bindings
            /\ reflection_log' = Append(reflection_log,
                                        [stage |-> shader_stage, errors |-> st.errors,
                                         before |-> reflected_bindings, after |-> st.bindings])
    /\ UNCHANGED << shader_stages, pipeline_interface >>
    /\ UNCHANGED << pack_vars, mesh_vars, frame_vars, memory_vars, loading, transfer_queue >>

\* create_pipeline_interface(pipeline_create_info, color_attachments, depth_texture)
CreatePipelineInterface ==
    /\ ~pipeline_interface.called
    /\ \E backend_has_value \in BOOLEAN :
          pipeline_interface' = create_pipeline_interface(shader_stages, backend_has_value)
    /\ UNCHANGED << shader_stages, reflected_bindings, reflection_log >>
    /\ UNCHANGED << pack_vars, mesh_vars, frame_vars, memory_vars, loading, transfer_queue >>

\* ------------------------------------------------- the allocation strategies
\* the calls made on the strategies of the pools so far
StrategyCalls == SelectSeq(memory_log, LAMBDA e : e.op \in {"allocate", "free"})

\* mesh_memory: BlockAllocationStrategy::allocate(size)
BlockAllocate ==
    /\ ~terminated
    /\ ~is_null(mesh_memory)
    /\ Len(StrategyCalls) < MaxAllocations
    /\ \E size \in 1..MaxRequest :
         \E made \in {block_allocate(mesh_memory[1], size)} :
            /\ mesh_memory' = << made.strategy >>
            /\ memory_log' = Append(memory_log,
                  [op |-> "allocate", pool |-> "mesh_memory", null |-> FALSE,
                   size |-> align(size), ok |-> made.ok, offset |-> made.offset,
                   before |-> 0, after |-> 0])
    /\ UNCHANGED << ubo_memory, staging_buffer_memory, reflection_vars, loading, transfer_queue >>
    /\ UNCHANGED << pack_vars, mesh_vars, frame_vars >>

\* mesh_memory: BlockAllocationStrategy::free(allocation)
BlockFree ==
    /\ ~terminated
    /\ ~is_null(mesh_memory)
    /\ Len(StrategyCalls) < MaxAllocations
    /\ \E i \in 1..Len(mesh_memory[1].live) :
          /\ mesh_memory' = << block_free(mesh_memory[1], i) >>
          /\ memory_log' = Append(memory_log,
                [op |-> "free", pool |-> "mesh_memory", null |-> FALSE,
                 size |-> mesh_memory[1].live[i].size, ok |-> TRUE,
                 offset |-> mesh_memory[1].live[i].offset, before |-> 0, after |-> 0])
    /\ UNCHANGED << ubo_memory, staging_buffer_memory, reflection_vars, loading, transfer_queue >>
    /\ UNCHANGED << pack_vars, mesh_vars, frame_vars >>

\* ubo_memory or staging_buffer_memory: BumpPointAllocationStrategy::allocate(size)
BumpAllocate ==
    /\ ~terminated
    /\ Len(StrategyCalls) < MaxAllocations
    /\ \E size \in 1..MaxRequest :
         \/ /\ ~is_null(ubo_memory)
            /\ \E made \in {bump_allocate(ubo_memory[1], size)} :
                  /\ ubo_memory' = << made.strategy >>
                  /\ memory_log' = Append(memory_log,
                        [op |-> "allocate", pool |-> "ubo_memory", null |-> FALSE,
                         size |-> align(size), ok |-> made.ok, offset |-> made.offset,
                         before |-> ubo_memory[1].offset, after |-> made.strategy.offset])
            /\ UNCHANGED staging_buffer_memory
         \/ /\ ~is_null(staging_buffer_memory)
            /\ \E made \in {bump_allocate(staging_buffer_memory[1], size)} :
                  /\ staging_buffer_memory' = << made.strategy >>
                  /\ memory_log' = Append(memory_log,
                        [op |-> "allocate", pool |-> "staging_buffer_memory", null |-> FALSE,
                         size |-> align(size), ok |-> made.ok, offset |-> made.offset,
                         before |-> staging_buffer_memory[1].offset, after |-> made.strategy.offset])
            /\ UNCHANGED ubo_memory
    /\ UNCHANGED << mesh_memory, reflection_vars, loading, transfer_queue >>
    /\ UNCHANGED << pack_vars, mesh_vars, frame_vars >>

\* ------------------------------------------- load_shaderpack on several threads
\* the load_shaderpack calls begun so far
LoadsBegun == Len(load_history) + Cardinality({t \in Threads : loading[t].pc # "idle"})

\* lines 283-294: a thread enters load_shaderpack, reads the renderpack and
\* destroys what the loaded one left; renderpacks_loading_mutex is not locked
Loader_Enter(t) ==
    /\ ~terminated
    /\ pc = "idle"
    /\ loading[t].pc = "idle"
    /\ LoadsBegun < MaxLoads
    /\ \E data \in ScenePacks :
         \E nova \in {unload([This EXCEPT !.load_no = @ + 1])} :
            /\ loading' = [loading EXCEPT ![t] = [pc |-> "unloaded", pack |-> data.name]]
            /\ dynamic_textures' = nova.dynamic_textures
            /\ dynamic_texture_infos' = nova.dynamic_texture_infos
            /\ renderpasses' = nova.renderpasses
            /\ rp_heap' = nova.rp_heap
            /\ renderpass_metadatas' = nova.renderpass_metadatas
            /\ material_pass_keys' = nova.material_pass_keys
            /\ destroy_count' = nova.destroy_count
            /\ load_log' = nova.log
    /\ UNCHANGED << shaderpack_loaded, builtin_renderpasses, builtin_images, builtin_buffers,
                    next_handle, handle_info, load_history, arp_log, bind_log, last_load,
                    snapshot_first, backend_failures, terminated >>
    /\ UNCHANGED << mesh_vars, frame_vars, reflection_vars, memory_vars, transfer_queue >>

\* lines 296-320: the thread orders the passes, creates the textures and the
\* renderpasses, appends the builtin passes and leaves
Loader_Leave(t) ==
    /\ ~terminated
    /\ loading[t].pc = "unloaded"
    /\ \E data \in {d \in ScenePacks : d.name = loading[t].pack} :
         \E nova \in {load_new_pack([This EXCEPT !.load_no = @ + 1], data, NoFails, <<>>)} :
            /\ loading' = [loading EXCEPT ![t] = [pc |-> "idle", pack |-> ""]]
            /\ shaderpack_loaded' = nova.shaderpack_loaded
            /\ dynamic_textures' = nova.dynamic_textures
            /\ dynamic_texture_infos' = nova.dynamic_texture_infos
            /\ renderpasses' = nova.renderpasses
            /\ rp_heap' = nova.rp_heap
            /\ builtin_renderpasses' = nova.builtin_renderpasses
            /\ renderpass_metadatas' = nova.renderpass_metadatas
            /\ material_pass_keys' = nova.material_pass_keys
            /\ next_handle' = nova.next_handle
            /\ handle_info' = nova.handle_info
            /\ destroy_count' = nova.destroy_count
            /\ load_log' = load_log \o nova.log
            /\ arp_log' = nova.arp
            /\ bind_log' = nova.binds
            /\ terminated' = nova.threw
            /\ load_history' = Append(load_history, data.name)
    /\ UNCHANGED << builtin_images, builtin_buffers, last_load, snapshot_first, backend_failures >>
    /\ UNCHANGED << mesh_vars, frame_vars, reflection_vars, memory_vars, transfer_queue >>

\* ------------------------------------------------------ uploads and frames
\* the transfer queue finishes the oldest upload submitted to it
TransferComplete ==
    /\ transfer_queue # <<>>
    /\ transfer_queue' = Tail(transfer_queue)
    /\ UNCHANGED << pack_vars, mesh_vars, frame_vars, reflection_vars, memory_vars, loading >>

\* the calls the host makes between frames, while the number of calls made is
\* below MaxHostCalls
HostCallsMade == Len(load_history) + next_mesh_id + CallsBegun + frame_count

HostLoad == pc = "idle" /\ load_history = <<>> /\ HostCallsMade < MaxHostCalls /\ LoadScenePack

HostCreateMesh == pc = "idle" /\ HostCallsMade < MaxHostCalls /\ CreateMesh

HostAddRenderable == pc = "idle" /\ HostCallsMade < MaxHostCalls /\ AddRenderableForMaterial

HostExecuteFrame == HostCallsMade < MaxHostCalls /\ ExecuteFrame_Acquire

\* ======================================================================
\* Claims
\* ======================================================================
PackNamed(n) == CHOOSE data \in AllPacks : data.name = n

CurrentLoad == Len(load_history)

OpsOf(log) == [k \in 1..Len(log) |-> log[k].op]

FrameOrder ==
    << "acquire", "reset_fences", "create_command_list", "record_proc_meshes", "render",
       "submit_command_list", "wait_for_fences", "present" >>

\* C1: the backend calls of a frame are made in the order acquire image i,
\* reset fence i, create the command list, record the procedural-mesh uploads
\* and the passes, submit signaling fence i, wait for fence i, present image
\* i; the fence the frame waits for was signaled by the command list this
\* frame submitted, so an image is presented only after that.
C1_FrameStepsInOrder ==
    /\ IsPrefix(OpsOf(frame_log), FrameOrder)
    /\ \A k \in 1..Len(frame_log) :
         /\ frame_log[k].op \in {"acquire", "reset_fences", "submit_command_list",
                                 "wait_for_fences", "present"}
              => frame_log[k].arg = cur_frame_idx
         /\ frame_log[k].op = "wait_for_fences" => frame_log[k].by = frame_count
         /\ frame_log[k].op = "present"
              => /\ frame_log[k - 1].op = "wait_for_fences"
                 /\ \A q \in 1..Len(gpu_queue) : gpu_queue[q].cmds # cmds.id

\* a second frame has been presented
C1_Witness ==
    /\ frame_count = 2
    /\ pc = "idle"
    /\ Len(frame_log) = 8
    /\ frame_log[8].op = "present"

\* the passes at two different places of a rendered sequence, one writing a
\* texture the other reads: the writer comes first
RespectsDependencies(rendered) ==
    \A i, j \in 1..Len(rendered) :
        (/\ rendered[i] # rendered[j]
         /\ InputNames(rp_heap[rendered[j]].desc) \cap OutputNames(rp_heap[rendered[i]].desc) # {})
        => i < j

\* C2: in a frame executed after a renderpack whose passes could be ordered
\* has been loaded, a pass that declares a texture as an input is rendered
\* after every other pass that declares that texture as an output.
C2_RenderOrderRespectsDependencies ==
    (pc = "submit" /\ shaderpack_loaded /\ last_load.ordered)
        => RespectsDependencies(cmds.recorded)

NamesOf(rendered) == [k \in 1..Len(rendered) |-> rp_heap[rendered[k]].desc.name]

RECURSIVE KnownBuiltins(_)
KnownBuiltins(names) ==
    IF names = <<>> THEN <<>>
    ELSE IF Head(names) \in DOMAIN builtin_renderpasses
      THEN << Head(names) >> \o KnownBuiltins(Tail(names))
      ELSE KnownBuiltins(Tail(names))

\* C3: after loading a renderpack whose passes could be ordered, the backend
\* never having refused a creation, a frame renders exactly the ordered passes
\* of the renderpack followed by the builtin passes it names, no pass twice.
C3_RendersExactlyThePack ==
    (pc = "submit" /\ shaderpack_loaded /\ last_load.ordered /\ backend_failures = 0)
        => /\ NamesOf(cmds.recorded)
                = [k \in 1..Len(last_load.passes) |-> last_load.passes[k].name]
                  \o KnownBuiltins(PackNamed(last_load.pack).builtin_passes)
           /\ \A i, j \in 1..Len(cmds.recorded) :
                  i # j => cmds.recorded[i] # cmds.recorded[j]

\* the places of renderpasses filled by the last load with passes it created
RegisteredByLastLoad ==
    {k \in 1..Len(renderpasses) : rp_heap[renderpasses[k]].load = CurrentLoad}

\* C4: a load whose passes form a dependency cycle registers no pass taken
\* from the failed ordering.
C4_CycleRegistersNothing ==
    (CurrentLoad > 0 /\ ~last_load.ordered) => RegisteredByLastLoad = {}

\* C5: loading A, then B, then A again, all orderable and without a backend
\* failure, leaves the dynamic textures and the registered passes, pipelines
\* and material passes, by name and attributes, as the first load left them.
C5_ReloadRoundTrip ==
    (/\ CurrentLoad = 3
     /\ load_history[1] = load_history[3]
     /\ load_history[2] # load_history[1]
     /\ backend_failures = 0
     /\ snapshot_first.ordered /\ last_load.ordered
     /\ ~terminated)
        => /\ TextureTable(This) = snapshot_first.textures
           /\ PassTable(This) = snapshot_first.passes

\* the backend objects a Renderpass object owns
BackendObjectsOf(rp) ==
    ({rp.renderpass, rp.framebuffer} \cup {rp.pipelines[k].pipeline : k \in 1..Len(rp.pipelines)})
        \ {nullptr}

\* C6: the backend objects of a pass created by a load are destroyed exactly
\* once, by the load that replaces its renderpack, and never again.
C6_DestroyedExactlyOnce ==
    ~terminated =>
        \A i \in 1..Len(rp_heap) :
            (rp_heap[i].load >= 1 /\ ~rp_heap[i].is_builtin)
            => \A h \in BackendObjectsOf(rp_heap[i]) :
                   destroy_count[h] = IF rp_heap[i].load < CurrentLoad THEN 1 ELSE 0

\* C7: no backend object of a renderpass held in builtin_renderpasses is
\* ever destroyed.
C7_BuiltinNeverDestroyed ==
    \A n \in DOMAIN builtin_renderpasses :
        \A h \in BackendObjectsOf(rp_heap[builtin_renderpasses[n]]) : destroy_count[h] = 0

TextureNamed(data, n) ==
    data.textures[CHOOSE k \in 1..Len(data.textures) : data.textures[k].name = n]

\* C8: a load destroys every dynamic texture the table held before it creates
\* a texture of the new renderpack, and afterwards the table holds exactly
\* the textures of the renderpack just loaded, each created by this load.
C8_TexturesReplacedOnLoad ==
    CurrentLoad > 0 =>
        /\ \A i, j \in 1..Len(load_log) :
               (load_log[i].op = "destroy_image" /\ load_log[j].op = "create_image") => i < j
        /\ \A h \in last_load.textures_before :
               /\ \E i \in 1..Len(load_log) :
                      load_log[i].op = "destroy_image" /\ load_log[i].arg = h
               /\ \A n \in DOMAIN dynamic_textures : dynamic_textures[n] # h
        /\ DOMAIN dynamic_textures
               = {PackNamed(last_load.pack).textures[k].name :
                      k \in 1..Len(PackNamed(last_load.pack).textures)}
        /\ \A n \in DOMAIN dynamic_textures :
               /\ handle_info[dynamic_textures[n]].load = CurrentLoad
               /\ handle_info[dynamic_textures[n]].of = TextureNamed(PackNamed(last_load.pack), n)
               /\ destroy_count[dynamic_textures[n]] = 0

\* a reload has replaced the textures of another renderpack
C8_Witness ==
    /\ CurrentLoad >= 2
    /\ load_history[CurrentLoad] # load_history[CurrentLoad - 1]
    /\ last_load.textures_before # {}
    /\ DOMAIN dynamic_textures # {}

\* C9: the passes registered by the last load have ids that go up by exactly
\* one in registration order.
C9_IdsDense ==
    ~terminated =>
        \A k \in RegisteredByLastLoad :
            (k + 1) \in RegisteredByLastLoad
            => rp_heap[renderpasses[k + 1]].id = rp_heap[renderpasses[k]].id + 1

\* the material passes the last load created, by full name
CreatedByLastLoad ==
    {<< mp.data.material_name, mp.data.name >> :
        mp \in UNION {UNION {Range(rp_heap[renderpasses[k]].pipelines[q].passes) :
                                q \in 1..Len(rp_heap[renderpasses[k]].pipelines)} :
                          k \in RegisteredByLastLoad}}

KeyDesignates(key, full_name) ==
    /\ key.renderpass_index < Len(renderpasses)
    /\ LET rp == rp_heap[renderpasses[key.renderpass_index + 1]]
       IN /\ key.pipeline_index < Len(rp.pipelines)
          /\ LET pipeline == rp.pipelines[key.pipeline_index + 1]
             IN /\ key.material_pass_index < Len(pipeline.passes)
                /\ LET mp == pipeline.passes[key.material_pass_index + 1]
                   IN /\ mp.data.material_name = full_name[1]
                      /\ mp.data.name = full_name[2]
                      /\ mp.load = CurrentLoad

\* C10: the key found for a material pass of the loaded renderpack has its
\* three indices in range and designates the material pass the last load
\* created for that name.
C10_KeysDesignateCurrentPasses ==
    ~terminated =>
        \A full_name \in CreatedByLastLoad :
            /\ full_name \in DOMAIN material_pass_keys
            /\ KeyDesignates(material_pass_keys[full_name], full_name)

\* the size in pixels of the image a texture name designates
SizeOfTexture(n) ==
    get_size_in_pixels(handle_info[dynamic_textures[n]].of, << WindowWidth, WindowHeight >>)

\* the color outputs of a descriptor other than the backbuffer
ColorOutputs(create_info) == OutputNames(create_info) \ {BACKBUFFER_NAME}

Registered(c) == Len(c.after.renderpasses) = Len(c.before.renderpasses) + 1

Reported(c, op) == \E i \in 1..Len(c.log) : c.log[i].op = op

\* C11: an add_render_pass call on a descriptor with two color outputs whose
\* textures have different sizes in pixels reports attachment errors and
\* registers no Renderpass.
C11_SizeMismatchRejected ==
    \A k \in 1..Len(arp_log) :
        LET c == arp_log[k]
        IN (/\ ColorOutputs(c.create_info) \subseteq DOMAIN dynamic_textures
            /\ \E a, b \in ColorOutputs(c.create_info) : SizeOfTexture(a) # SizeOfTexture(b))
           => /\ ~Registered(c)
              /\ Reported(c, "attachment_errors")

\* C12: an add_render_pass call on a descriptor whose depth attachment has
\* another size in pixels than one of its color attachments fails and
\* registers no Renderpass.
C12_DepthSizeChecked ==
    \A k \in 1..Len(arp_log) :
        LET c == arp_log[k]
        IN (/\ c.create_info.depth_texture # <<>>
            /\ ColorOutputs(c.create_info) \subseteq DOMAIN dynamic_textures
            /\ c.create_info.depth_texture[1].name \in DOMAIN dynamic_textures
            /\ \E a \in ColorOutputs(c.create_info) :
                   SizeOfTexture(a) # SizeOfTexture(c.create_info.depth_texture[1].name))
           => ~Registered(c)

OnlyBackbuffer(create_info) ==
    /\ Len(create_info.texture_outputs) = 1
    /\ create_info.texture_outputs[1].name = BACKBUFFER_NAME

\* C13: a registered renderpass has no framebuffer exactly when its only
\* output is the backbuffer, and then it is marked as writing to the
\* backbuffer; no registered pass outputs the backbuffer together with other
\* textures.
C13_FramebufferUnlessBackbuffer ==
    \A k \in 1..Len(renderpasses) :
        LET rp == rp_heap[renderpasses[k]]
        IN /\ (rp.framebuffer = nullptr) <=> OnlyBackbuffer(rp.desc)
           /\ OnlyBackbuffer(rp.desc) => rp.writes_to_backbuffer
           /\ ~(BACKBUFFER_NAME \in OutputNames(rp.desc) /\ Len(rp.desc.texture_outputs) > 1)

\* the renderpack Err is loaded: Present is registered without a framebuffer,
\* Good with one, and BackPlus was refused
C13_Witness ==
    /\ \E k \in 1..Len(renderpasses) :
           /\ rp_heap[renderpasses[k]].desc.name = "Present"
           /\ rp_heap[renderpasses[k]].framebuffer = nullptr
           /\ rp_heap[renderpasses[k]].renderpass # nullptr
    /\ \E k \in 1..Len(renderpasses) :
           /\ rp_heap[renderpasses[k]].desc.name = "Good"
           /\ rp_heap[renderpasses[k]].framebuffer # nullptr
    /\ \E k \in 1..Len(arp_log) :
           arp_log[k].create_info.name = "BackPlus" /\ ~Registered(arp_log[k])

\* C14: an add_render_pass call that fails on attachment errors or on a
\* refused create_renderpass leaves renderpasses, renderpass_metadatas and
\* material_pass_keys as they were before the call.
C14_FailedCallChangesNothing ==
    \A k \in 1..Len(arp_log) :
        (Reported(arp_log[k], "attachment_errors") \/ Reported(arp_log[k], "create_renderpass_failed"))
        => arp_log[k].after = arp_log[k].before

\* one load had a call refused by the backend and, with passes and keys
\* already registered, a call with attachment errors
C14_Witness ==
    /\ \E k \in 1..Len(arp_log) : Reported(arp_log[k], "create_renderpass_failed")
    /\ \E k \in 1..Len(arp_log) :
           /\ Reported(arp_log[k], "attachment_errors")
           /\ arp_log[k].before.renderpasses # <<>>
           /\ DOMAIN arp_log[k].before.material_pass_keys # {}
           /\ DOMAIN arp_log[k].before.renderpass_metadatas # {}

\* the pipelines of a renderpack that belong to a pass and compile
PipelinesFor(data, fails, pass_name) ==
    SelectSeq(data.pipelines,
              LAMBDA p : p.pass = pass_name /\ p.name \notin (fails.interface \cup fails.pipeline))

\* the material passes of a renderpack that use a pipeline
MaterialPassesFor(data, pipeline_name) ==
    SelectSeq(all_material_passes(data.materials), LAMBDA m : m.pipeline = pipeline_name)

\* a descriptor add_render_pass has to accept: its color outputs are dynamic
\* textures of one size, or the backbuffer alone
ValidAttachments(create_info) ==
    /\ ColorOutputs(create_info) \subseteq DOMAIN dynamic_textures
    /\ \A a, b \in ColorOutputs(create_info) : SizeOfTexture(a) = SizeOfTexture(b)
    /\ BACKBUFFER_NAME \in OutputNames(create_info) => Len(create_info.texture_outputs) = 1

\* the material bindings of the renderpack name descriptors of their pipeline
\* and no pass writes a builtin image
PlainPack(data) ==
    /\ \A i \in 1..Len(data.pipelines) :
           \A m \in Range(MaterialPassesFor(data, data.pipelines[i].name)) :
               DOMAIN m.bindings \subseteq DOMAIN data.pipelines[i].bindings
    /\ \A i \in 1..Len(data.passes) :
           OutputNames(data.passes[i]) \cap DOMAIN builtin_images = {}

\* the pass of the last load is registered with its compiled pipelines and
\* their material passes, each with a key
RegisteredInFull(data, fails, create_info) ==
    \E k \in RegisteredByLastLoad :
        LET rp == rp_heap[renderpasses[k]]
            expected == PipelinesFor(data, fails, create_info.name)
        IN /\ rp.desc = create_info
           /\ Len(rp.pipelines) = Len(expected)
           /\ \A q \in 1..Len(expected) :
                  /\ rp.pipelines[q].name = expected[q].name
                  /\ [i \in 1..Len(rp.pipelines[q].passes) |-> rp.pipelines[q].passes[i].data]
                         = MaterialPassesFor(data, expected[q].name)
                  /\ \A m \in Range(MaterialPassesFor(data, expected[q].name)) :
                         << m.material_name, m.name >> \in DOMAIN material_pass_keys

\* C15: a load in which a pass has an invalid attachment specification, or
\* the backend refuses a renderpass or a pipeline, still registers every
\* other pass with its other pipelines and their material passes.
C15_OnlyTheInvalidIsDropped ==
    (CurrentLoad > 0 /\ last_load.ordered /\ PlainPack(PackNamed(last_load.pack)))
    => \A i \in 1..Len(last_load.passes) :
           (/\ ValidAttachments(last_load.passes[i])
            /\ last_load.passes[i].name \notin last_load.fails.renderpass)
           => RegisteredInFull(PackNamed(last_load.pack), last_load.fails, last_load.passes[i])

Resolves(resource_name) ==
    resource_name \in DOMAIN dynamic_textures \/ resource_name \in DOMAIN builtin_buffers

\* the one write a binding with a resolving resource name has to get
ExpectedWrite(b, d) ==
    [descriptor |-> d,
     set |-> IF d \in DOMAIN b.descriptor_descriptions THEN b.descriptor_descriptions[d].set ELSE 0,
     first_binding |-> IF d \in DOMAIN b.descriptor_descriptions
                         THEN b.descriptor_descriptions[d].binding ELSE 0,
     type |-> IF b.bindings[d] \in DOMAIN dynamic_textures
                THEN "CombinedImageSampler" ELSE "UniformBuffer",
     resource |-> IF b.bindings[d] \in DOMAIN dynamic_textures
                    THEN dynamic_textures[b.bindings[d]] ELSE builtin_buffers[b.bindings[d]]]

\* C16: a bind_data_to_material_descriptor_sets call hands the backend
\* exactly one write for every binding whose resource name is a dynamic
\* texture or, failing that, a builtin buffer, and for a binding whose
\* resource name is in neither table no write, the name being reported.
C16_OneWritePerResolvedBinding ==
    \A k \in 1..Len(bind_log) :
        LET b == bind_log[k]
        IN \A d \in DOMAIN b.bindings :
              IF Resolves(b.bindings[d])
                THEN /\ b.updated
                     /\ {w \in b.writes : w.descriptor = d} = {ExpectedWrite(b, d)}
                ELSE /\ {w \in b.writes : w.descriptor = d} = {}
                     /\ b.updated => b.bindings[d] \in b.unknown

\* C17: an add_render_pass call on a descriptor whose outputs are dynamic
\* textures or builtin images of one size, the backend refusing nothing,
\* creates the backend renderpass and registers the pass; so does a pass
\* whose output is the builtin scene-output render target.
C17_BuiltinImagesResolve ==
    \A k \in 1..Len(arp_log) :
        LET c == arp_log[k]
        IN (/\ OutputNames(c.create_info) # {}
            /\ OutputNames(c.create_info) \subseteq DOMAIN builtin_images
            /\ ~c.backend_refused)
           => /\ ~c.threw
              /\ Registered(c)
              /\ c.object.renderpass # nullptr

\* the material passes of the current renderpasses, by position
MaterialPassPositions ==
    UNION { UNION { { << r, p, m >> :
                        m \in 1..Len(rp_heap[renderpasses[r]].pipelines[p].passes) } :
                    p \in 1..Len(rp_heap[renderpasses[r]].pipelines) } :
            r \in 1..Len(renderpasses) }

MaterialPassAt(pos) == rp_heap[renderpasses[pos[1]]].pipelines[pos[2]].passes[pos[3]]

\* where the static mesh batches hold a draw command of this id
StaticPlaces(id) ==
    UNION { UNION { { << pos, i, j >> :
                        j \in { j \in 1..Len(MaterialPassAt(pos).static_mesh_draws[i].commands) :
                                  MaterialPassAt(pos).static_mesh_draws[i].commands[j].id = id } } :
                    i \in 1..Len(MaterialPassAt(pos).static_mesh_draws) } :
            pos \in MaterialPassPositions }

\* the calls since the last load that got past the material lookup
Added == { k \in 1..Len(renderables) :
             /\ renderables[k].load = CurrentLoad
             /\ renderables[k].id # RENDERABLE_ID_MAX
             /\ ~renderables[k].threw }

KeyPosition(material_name) ==
    << material_pass_keys[material_name].renderpass_index + 1,
       material_pass_keys[material_name].pipeline_index + 1,
       material_pass_keys[material_name].material_pass_index + 1 >>

\* C18: after any sequence of add_renderable_for_material calls, no two
\* static mesh batches of one material pass share a vertex buffer, and the
\* draw command of every static renderable added with a known static mesh
\* is in exactly one batch, that of its material pass whose vertex buffer
\* is the mesh's
C18_OneBatchPerVertexBuffer ==
    /\ \A pos \in MaterialPassPositions :
          \A i, j \in 1..Len(MaterialPassAt(pos).static_mesh_draws) :
             i # j => MaterialPassAt(pos).static_mesh_draws[i].vertex_buffer
                        # MaterialPassAt(pos).static_mesh_draws[j].vertex_buffer
    /\ \A k \in Added :
          (renderables[k].is_static /\ renderables[k].static_mesh) =>
             /\ Cardinality(StaticPlaces(renderables[k].id)) = 1
             /\ \A place \in StaticPlaces(renderables[k].id) :
                   /\ place[1] = KeyPosition(renderables[k].material_name)
                   /\ MaterialPassAt(place[1]).static_mesh_draws[place[2]].vertex_buffer
                        = meshes[renderables[k].mesh].vertex_buffer

\* two static renderables of one mesh were added to one material pass, the
\* second one joining the batch of the first
C18_Witness ==
    \E k1, k2 \in Added :
       /\ k1 < k2
       /\ renderables[k1].is_static /\ renderables[k1].static_mesh
       /\ renderables[k2].is_static /\ renderables[k2].static_mesh
       /\ renderables[k1].mesh = renderables[k2].mesh
       /\ renderables[k1].material_name = renderables[k2].material_name
       /\ \E pos \in MaterialPassPositions :
            \E i \in 1..Len(MaterialPassAt(pos).static_mesh_draws) :
               Len(MaterialPassAt(pos).static_mesh_draws[i].commands) = 2

\* where the procedural mesh batches hold a draw command of this id
ProceduralPlaces(id) ==
    UNION { UNION { { << pos, i, j >> :
                        j \in { j \in 1..Len(MaterialPassAt(pos).static_procedural_mesh_draws[i].commands) :
                                  MaterialPassAt(pos).static_procedural_mesh_draws[i].commands[j].id = id } } :
                    i \in 1..Len(MaterialPassAt(pos).static_procedural_mesh_draws) } :
            pos \in MaterialPassPositions }

\* C19: the draw command of a static renderable added with a mesh id of the
\* procedural-mesh table is in the procedural-mesh batch of its material
\* pass for that mesh, the batch being created when there was none
C19_ProceduralBatchHoldsCommand ==
    \A k \in Added :
       (renderables[k].is_static /\ renderables[k].proc_mesh) =>
          \E place \in ProceduralPlaces(renderables[k].id) :
             /\ place[1] = KeyPosition(renderables[k].material_name)
             /\ MaterialPassAt(place[1]).static_procedural_mesh_draws[place[2]].mesh
                  = renderables[k].mesh

\* C20: no renderable id is handed out by two add_renderable_for_material
\* calls, whichever threads ran them
C20_RenderableIdsDistinct ==
    \A k1, k2 \in 1..Len(renderables) :
       (/\ k1 # k2
        /\ renderables[k1].id # RENDERABLE_ID_MAX
        /\ renderables[k2].id # RENDERABLE_ID_MAX)
          => renderables[k1].id # renderables[k2].id

\* the resources a shader declares, with the kind of the list they are in
Declared(shader) ==
    {[name |-> shader.sampled_images[i].name, set |-> shader.sampled_images[i].set,
      binding |-> shader.sampled_images[i].binding, type |-> "CombinedImageSampler"] :
        i \in 1..Len(shader.sampled_images)}
    \cup {[name |-> shader.uniform_buffers[i].name, set |-> shader.uniform_buffers[i].set,
           binding |-> shader.uniform_buffers[i].binding, type |-> "UniformBuffer"] :
             i \in 1..Len(shader.uniform_buffers)}
    \cup {[name |-> shader.storage_buffers[i].name, set |-> shader.storage_buffers[i].set,
           binding |-> shader.storage_buffers[i].binding, type |-> "StorageBuffer"] :
             i \in 1..Len(shader.storage_buffers)}

\* C21: merging the reflected bindings of one shader stage into a binding
\* map a second time leaves the map as the first merge left it
C21_MergeIdempotent ==
    \A k \in 2..Len(reflection_log) :
       reflection_log[k].stage = reflection_log[k - 1].stage
          => reflection_log[k].after = reflection_log[k - 1].after

\* a stage that declares resources was merged twice in a row into a map
\* that already held the bindings of the other stage
C21_Witness ==
    \E k \in 3..Len(reflection_log) :
       /\ reflection_log[k].stage = reflection_log[k - 1].stage
       /\ reflection_log[k - 2].stage # reflection_log[k].stage
       /\ Declared(shader_stages[reflection_log[k].stage]) # {}
       /\ reflection_log[k - 2].after # EmptyMap
       /\ \E n \in DOMAIN reflection_log[k].after :
             Cardinality(reflection_log[k].after[n].stages) = 2

\* two stages of the pipeline declare a resource of one name with another
\* set, binding or kind
Conflicting(create_info) ==
    \E s1, s2 \in DOMAIN create_info :
       /\ s1 # s2
       /\ \E d1 \in Declared(create_info[s1]), d2 \in Declared(create_info[s2]) :
             d1.name = d2.name /\ d1 # d2

\* C22: a pipeline whose stages declare conflicting resources of one name
\* gets no resource interface: the pipeline is skipped
C22_ConflictSkipsPipeline ==
    (pipeline_interface.called /\ Conflicting(shader_stages)) => ~pipeline_interface.has_value

\* C30: after a merge of all stages without a conflict the stage mask of a
\* binding is the set of the stages whose shader declares the name
C30_StageMaskIsUnion ==
    (pipeline_interface.called /\ pipeline_interface.errors = <<>>) =>
        /\ DOMAIN pipeline_interface.bindings
             = UNION {{d.name : d \in Declared(shader_stages[s])} : s \in DOMAIN shader_stages}
        /\ \A n \in DOMAIN pipeline_interface.bindings :
              pipeline_interface.bindings[n].stages
                 = {s \in DOMAIN shader_stages : \E d \in Declared(shader_stages[s]) : d.name = n}

\* an interface was built without a conflict and one of its bindings is
\* declared by the vertex and the fragment shader
C30_Witness ==
    /\ pipeline_interface.called
    /\ pipeline_interface.errors = <<>>
    /\ \E n \in DOMAIN pipeline_interface.bindings :
          pipeline_interface.bindings[n].stages = {"Vertex", "Fragment"}

\* two ranges of a block with no byte in common
Disjoint(a, b) == a.offset + a.size <= b.offset \/ b.offset + b.size <= a.offset

\* C26: under the block strategy of the mesh pool no two live allocations
\* overlap, and the free space it reports never exceeds the size of the block
C26_BlockAllocationsDisjoint ==
    ~is_null(mesh_memory) =>
        /\ \A i, j \in 1..Len(mesh_memory[1].live) :
              i < j => Disjoint(mesh_memory[1].live[i], mesh_memory[1].live[j])
        /\ free_space(mesh_memory[1].free) <= PoolSize

\* two allocations are live around a hole that a free left behind
C26_Witness ==
    /\ ~is_null(mesh_memory)
    /\ Len(mesh_memory[1].live) >= 2
    /\ Len(mesh_memory[1].free) >= 2
    /\ \E i \in 1..Len(memory_log) : memory_log[i].op = "free"

\* the allocate calls made on one bump pool, in order
BumpCalls(pool) == SelectSeq(memory_log, LAMBDA e : e.op = "allocate" /\ e.pool = pool)

BumpHistoryOk(calls) ==
    /\ \A i, j \in 1..Len(calls) :
          (i < j /\ calls[i].ok /\ calls[j].ok) =>
              /\ calls[i].offset < calls[j].offset
              /\ calls[i].offset + calls[i].size <= calls[j].offset
    /\ \A i \in 1..Len(calls) :
          ~calls[i].ok =>
              /\ calls[i].before + calls[i].size > PoolSize
              /\ calls[i].after = calls[i].before
              /\ i < Len(calls) =>
                    /\ calls[i + 1].before = calls[i].before
                    /\ calls[i + 1].before + calls[i + 1].size <= PoolSize =>
                          (calls[i + 1].ok /\ calls[i + 1].offset = calls[i].before)

\* C27: under the bump strategy successive allocations get strictly increasing,
\* non-overlapping offsets; an allocation that would pass the capacity fails
\* and leaves the offset where it was, so a later smaller one succeeds there
C27_BumpOffsetsIncrease ==
    \A pool \in {"ubo_memory", "staging_buffer_memory"} : BumpHistoryOk(BumpCalls(pool))

FailedThenSmaller(calls) ==
    \E i \in 1..(Len(calls) - 1) :
        /\ ~calls[i].ok
        /\ calls[i + 1].ok
        /\ calls[i + 1].size < calls[i].size
        /\ \E j \in 1..(i - 1) : calls[j].ok

\* a pool refused an allocation and then served a smaller one
C27_Witness ==
    \E pool \in {"ubo_memory", "staging_buffer_memory"} : FailedThenSmaller(BumpCalls(pool))

\* C28: an operation that needs a pool whose device memory could not be
\* allocated at start-up never dereferences the missing pool
C28_MissingPoolNeverUsed ==
    \A i \in 1..Len(memory_log) : ~memory_log[i].null

\* C23: renderpack load and unload are mutually exclusive across threads: no
\* two threads are inside load_shaderpack at once
C23_LoadsMutuallyExclusive ==
    \A t1, t2 \in Threads :
        (loading[t1].pc # "idle" /\ loading[t2].pc # "idle") => t1 = t2

\* a step of execute_frame
FrameStep == pc # "idle" \/ pc' # "idle"

\* C24: execute_frame leaves the dynamic-texture table, the builtin-buffer
\* table, the MaterialPassKey table and the renderpass list unchanged
C24_FrameLeavesTablesUnchanged ==
    [][FrameStep => UNCHANGED << dynamic_textures, builtin_buffers, material_pass_keys,
                                 renderpasses >>]_vars

\* a frame of a loaded renderpack has recorded its passes and been submitted
C24_Witness ==
    /\ pc = "present"
    /\ shaderpack_loaded
    /\ Len(cmds.recorded) >= 2
    /\ cmds.recorded = renderpasses
    /\ DOMAIN dynamic_textures # {}
    /\ DOMAIN material_pass_keys # {}
    /\ DOMAIN builtin_buffers # {}

\* a step of load_shaderpack that destroys the objects of the loaded renderpack
DestroyingLoad == Len(load_history') > Len(load_history) /\ shaderpack_loaded

\* C25: when load_shaderpack destroys the previous renderpack's textures and
\* renderpasses no frame command list is still on the GPU: every frame
\* submitted before has had its fence waited on
C25_NoFrameInFlightAtUnload ==
    [][DestroyingLoad =>
          /\ gpu_queue = <<>>
          /\ pc = "idle"
          /\ frame_count > 0 =>
                \E k \in 1..Len(frame_log) :
                    /\ frame_log[k].op = "wait_for_fences"
                    /\ frame_log[k].by = frame_count]_vars

\* the passes the last frame recorded have been destroyed by a later load
C25_Witness ==
    /\ pc = "idle"
    /\ frame_count > 0
    /\ last_load.was_loaded
    /\ \E i \in 1..Len(cmds.recorded) :
          /\ rp_heap[cmds.recorded[i]].renderpass # nullptr
          /\ destroy_count[rp_heap[cmds.recorded[i]].renderpass] > 0

\* the calls of the running frame that touch a command list
RecordOps == {"record_proc_meshes", "render"}

\* C29: each execute_frame creates its own command list, records into it only
\* before submitting it, submits it exactly once, and never records into or
\* submits a command list created in an earlier frame
C29_OwnCommandListPerFrame ==
    /\ \A k \in 1..Len(frame_log) :
          frame_log[k].op \in RecordOps =>
              /\ frame_log[k].arg = frame_count
              /\ \E j \in 1..(k - 1) :
                    /\ frame_log[j].op = "create_command_list"
                    /\ frame_log[j].arg = frame_count
              /\ \A j \in 1..(k - 1) : frame_log[j].op # "submit_command_list"
    /\ Cardinality({k \in 1..Len(frame_log) : frame_log[k].op = "create_command_list"}) <= 1
    /\ Cardinality({k \in 1..Len(frame_log) : frame_log[k].op = "submit_command_list"})
          = (IF cmds.submitted THEN 1 ELSE 0)
    /\ pc \in {"wait_for_fences", "present"} => cmds.submitted
    /\ (pc = "idle" /\ frame_count > 0) => cmds.submitted
    /\ cmds.submitted => cmds.id = frame_count
    /\ \A q \in 1..Len(gpu_queue) : gpu_queue[q].cmds = frame_count
    /\ Len(gpu_queue) <= 1

\* the second frame has recorded into and submitted its own command list
C29_Witness ==
    /\ frame_count = 2
    /\ cmds.id = 2
    /\ cmds.submitted
    /\ cmds.recorded # <<>>
    /\ pc = "present"

\* a backend object that a destroy_* call has been made on
Destroyed(h) == h # nullptr /\ destroy_count[h] > 0

\* the renderpass, the framebuffer or a pipeline of the pass is destroyed
HasDestroyedObjects(renderpass) ==
    \/ Destroyed(renderpass.renderpass)
    \/ Destroyed(renderpass.framebuffer)
    \/ \E k \in 1..Len(renderpass.pipelines) : Destroyed(renderpass.pipelines[k].pipeline)

\* C31: after any sequence of load_shaderpack calls execute_frame never calls
\* render on a renderpass whose backend renderpass, framebuffer or pipelines
\* have been destroyed
C31_NoDestroyedPassRendered ==
    pc \in {"submit", "wait_for_fences", "present"} =>
        \A i \in 1..Len(cmds.recorded) : ~HasDestroyedObjects(rp_heap[cmds.recorded[i]])

\* the renderpack the last load_shaderpack was given
CurrentPack == PackNamed(load_history[Len(load_history)])

\* C32: after every load_shaderpack the texture-info table has exactly the
\* names of the dynamic-texture table and holds for each name the create info
\* of the currently loaded renderpack
C32_TextureInfosOfCurrentPack ==
    (load_history # <<>> /\ ~terminated /\ shaderpack_loaded) =>
        /\ DOMAIN dynamic_texture_infos = DOMAIN dynamic_textures
        /\ \A i \in 1..Len(CurrentPack.textures) :
              /\ CurrentPack.textures[i].name \in DOMAIN dynamic_texture_infos
              /\ dynamic_texture_infos[CurrentPack.textures[i].name] = CurrentPack.textures[i]

\* C33: whenever add_renderable_for_material returns an id other than the
\* sentinel, exactly one draw command carrying that id has been appended to a
\* batch of the addressed material pass
C33_ReturnedIdHasOneCommand ==
    \A k \in Added :
        /\ Cardinality(StaticPlaces(renderables[k].id) \cup ProceduralPlaces(renderables[k].id)) = 1
        /\ \A place \in StaticPlaces(renderables[k].id) \cup ProceduralPlaces(renderables[k].id) :
              place[1] = KeyPosition(renderables[k].material_name)

\* a step in which add_renderable_for_material, given a name without a
\* MaterialPassKey, returns
UnknownMaterialAdded ==
    /\ Len(renderables') = Len(renderables) + 1
    /\ renderables'[Len(renderables')].material_name \notin DOMAIN material_pass_keys

\* C34: add_renderable_for_material with a material/pass name that has no
\* MaterialPassKey returns the sentinel id and changes no batch of any
\* material pass
C34_UnknownMaterialRefused ==
    [][UnknownMaterialAdded =>
          /\ renderables'[Len(renderables')].id = RENDERABLE_ID_MAX
          /\ rp_heap' = rp_heap
          /\ renderpasses' = renderpasses]_vars

\* a name without a MaterialPassKey was refused while a material pass of the
\* loaded renderpack already held a draw command
C34_Witness ==
    \E k \in 2..Len(renderables) :
        /\ renderables[k].id = RENDERABLE_ID_MAX
        /\ renderables[k].load = CurrentLoad
        /\ shaderpack_loaded
        /\ renderables[k].material_name \notin DOMAIN material_pass_keys
        /\ (k - 1) \in Added
        /\ StaticPlaces(renderables[k - 1].id) # {}

\* the fence the running frame waits on is signaled or has a submission
\* pending that will signal it
WaitCanReturn ==
    \/ frame_fences[cur_frame_idx].signaled
    \/ \E q \in 1..Len(gpu_queue) : gpu_queue[q].fence = cur_frame_idx

\* C35: every execute_frame call terminates: the fence it waits on is the one
\* signaled by the submission of the same call, so with a GPU that completes
\* submitted work the wait returns and the frame is presented; no frame waits
\* on a fence that was reset and has no pending submission to signal it
C35_FrameTerminates ==
    /\ [](pc = "wait_for_fences" => WaitCanReturn)
    /\ [](\A k \in 1..Len(frame_log) :
             frame_log[k].op = "wait_for_fences" => frame_log[k].by = frame_count)
    /\ (pc = "reset_fences" ~> pc = "idle")

\* a second frame has waited on the fence its own submission signaled and
\* has returned
C35_Witness ==
    /\ pc = "idle"
    /\ frame_count = 2
    /\ gpu_queue = <<>>
    /\ \E k \in 1..Len(frame_log) :
          frame_log[k].op = "wait_for_fences" /\ frame_log[k].by = 2

\* the vertex and index buffers of the batches that the command list of the
\* running frame draws
DrawnBuffers ==
    UNION { UNION { UNION { UNION { { rp_heap[cmds.recorded[r]].pipelines[p].passes[m].static_mesh_draws[b].vertex_buffer,
                                      rp_heap[cmds.recorded[r]].pipelines[p].passes[m].static_mesh_draws[b].index_buffer } :
                                    b \in 1..Len(rp_heap[cmds.recorded[r]].pipelines[p].passes[m].static_mesh_draws) } :
                            m \in 1..Len(rp_heap[cmds.recorded[r]].pipelines[p].passes) } :
                    p \in 1..Len(rp_heap[cmds.recorded[r]].pipelines) } :
            r \in 1..Len(cmds.recorded) }

\* the graphics queue executes the command list of the running frame
FrameExecutes == Len(gpu_queue') < Len(gpu_queue)

\* C36: the transfer-queue upload of a mesh's vertex and index data is ordered
\* before any graphics-queue frame submission that draws the mesh: no frame
\* executes a draw of a mesh while its upload is still pending
C36_UploadBeforeDraw ==
    [][FrameExecutes =>
          \A u \in 1..Len(transfer_queue) : transfer_queue[u].buffer \notin DrawnBuffers]_vars

\* the staging buffers the create_mesh calls asked for, in order
StagingRequests ==
    SelectSeq(memory_log, LAMBDA e : e.op = "create_buffer" /\ e.pool = "staging_buffer_memory")

\* C37: staging memory used by create_mesh is reclaimed between uploads: for
\* any number of create_mesh calls whose vertex data and index data each fit
\* in the staging pool, every call obtains its two staging buffers
C37_StagingReclaimed ==
    \A i \in 1..Len(StagingRequests) :
        StagingRequests[i].size <= PoolSize => StagingRequests[i].ok

\* C38: mesh ids returned by create_mesh and create_procedural_mesh, in any
\* interleaving of calls, are pairwise distinct: every call that returned has
\* its own key, and no mesh id is a key of both the static-mesh table and the
\* procedural-mesh table
C38_MeshIdsDistinct ==
    /\ DOMAIN meshes \cap DOMAIN proc_meshes = {}
    /\ Cardinality(DOMAIN meshes) + Cardinality(DOMAIN proc_meshes) = next_mesh_id

\* a static mesh and a procedural mesh both exist
C38_Witness ==
    /\ DOMAIN meshes # {}
    /\ DOMAIN proc_meshes # {}

Next ==
    \/ LoadShaderpack
    \/ SetUiRenderpass
    \/ ExecuteFrame_Acquire
    \/ ExecuteFrame_ResetFences
    \/ ExecuteFrame_CreateCommandList
    \/ ExecuteFrame_Record
    \/ ExecuteFrame_Submit
    \/ ExecuteFrame_WaitForFences
    \/ ExecuteFrame_Present
    \/ GpuComplete

Spec == Init /\ [][Next]_vars

\* the renderpack path alone
NextLoading == LoadShaderpack \/ SetUiRenderpass

SpecLoading == Init /\ [][NextLoading]_vars

\* renderpacks whose passes, pipelines and bindings exercise add_render_pass
NextPasses == LoadPassPack

SpecPasses == Init /\ [][NextPasses]_vars

\* meshes and renderables, every add_renderable_for_material call run whole
NextScene ==
    \/ LoadScenePack
    \/ CreateMesh
    \/ CreateProceduralMesh
    \/ AddRenderableForMaterial

SpecScene == Init /\ [][NextScene]_vars

\* add_renderable_for_material called from several threads
NextThreads ==
    \/ LoadScenePack
    \/ \E t \in Threads : Thread_Load(t)
    \/ \E t \in Threads : Thread_FetchAdd(t)
    \/ \E t \in Threads : Thread_Place(t)

SpecThreads == Init /\ [][NextThreads]_vars

\* the resource interface of one pipeline
NextReflection == GetShaderModuleDescriptors \/ CreatePipelineInterface

SpecReflection == InitReflection /\ [][NextReflection]_vars

\* the block strategy of the mesh pool alone
NextBlock == BlockAllocate \/ BlockFree

SpecBlock == Init /\ [][NextBlock]_vars

\* the bump strategies of the uniform and staging pools alone
NextBump == BumpAllocate

SpecBump == Init /\ [][NextBump]_vars

\* meshes made after a start-up in which pools may be missing
NextPools == LoadScenePack \/ CreateMesh \/ CreateProceduralMesh

SpecPools == InitPools /\ [][NextPools]_vars

\* load_shaderpack called from several threads
NextLoaders == \E t \in Threads : Loader_Enter(t) \/ Loader_Leave(t)

SpecLoaders == Init /\ [][NextLoaders]_vars

\* frames of renderpacks that load without a refusal
NextRender ==
    \/ LoadScenePack
    \/ ExecuteFrame_Acquire
    \/ ExecuteFrame_ResetFences
    \/ ExecuteFrame_CreateCommandList
    \/ ExecuteFrame_Record
    \/ ExecuteFrame_Submit
    \/ ExecuteFrame_WaitForFences
    \/ ExecuteFrame_Present
    \/ GpuComplete

SpecRender == Init /\ [][NextRender]_vars

\* a pack loaded, meshes with data staged through the staging pool, and
\* procedural meshes
NextStaging ==
    \/ LoadScenePack
    \/ CreateStagedMesh
    \/ CreateProceduralMesh

SpecStaging == Init /\ [][NextStaging]_vars

\* meshes uploaded and drawn by the host thread
NextUpload ==
    \/ HostLoad
    \/ HostCreateMesh
    \/ HostAddRenderable
    \/ HostExecuteFrame
    \/ ExecuteFrame_ResetFences
    \/ ExecuteFrame_CreateCommandList
    \/ ExecuteFrame_Record
    \/ ExecuteFrame_Submit
    \/ ExecuteFrame_WaitForFences
    \/ ExecuteFrame_Present
    \/ GpuComplete
    \/ TransferComplete

SpecUpload == Init /\ [][NextUpload]_vars

\* the frame executor alone
NextFrame ==
    \/ ExecuteFrame_Acquire
    \/ ExecuteFrame_ResetFences
    \/ ExecuteFrame_CreateCommandList
    \/ ExecuteFrame_Record
    \/ ExecuteFrame_Submit
    \/ ExecuteFrame_WaitForFences
    \/ ExecuteFrame_Present
    \/ GpuComplete

SpecFrame == Init /\ [][NextFrame]_vars

\* the frame executor on a host thread that keeps running once it is inside
\* execute_frame, with a GPU that completes the work submitted to it
FrameContinues ==
    \/ ExecuteFrame_ResetFences
    \/ ExecuteFrame_CreateCommandList
    \/ ExecuteFrame_Record
    \/ ExecuteFrame_Submit
    \/ ExecuteFrame_WaitForFences
    \/ ExecuteFrame_Present

SpecFrameLive ==
    /\ Init
    /\ [][NextFrame]_vars
    /\ WF_vars(FrameContinues)
    /\ WF_vars(GpuComplete)
====
